---- MODULE Spec2Model ----
(***************************************************************************)
(* A model of BitDT (src/python/bitdt.py): the ThousandCounter millisecond *)
(* codec, the BitDT packed date-time value with its text encoder and       *)
(* decoder, and the BitDTEpoch epoch <-> text layer.                       *)
(*                                                                         *)
(* Representation choices.                                                 *)
(*  - A Python str is a sequence of one-character strings; None is the     *)
(*    one-element sequence NoneStr, which no text can equal.               *)
(*  - Python ints that exceed 32 bits are kept exactly: the packed value   *)
(*    is kept as its bit fields, most significant first (a mixed-radix     *)
(*    numeral, so numeric order is lexicographic order of the fields),     *)
(*    and epoch values are a sign and a base-1000 magnitude (see Long).    *)
(*  - Python floats are IEEE-754 doubles: a magnitude m * 2^e with         *)
(*    m < 2^53, every operation rounded to nearest, ties to even.          *)
(***************************************************************************)
EXTENDS Integers, Sequences, FiniteSets, TLC

VARIABLES pc, args, x, text, y, text2, z, result

vars == <<pc, args, x, text, y, text2, z, result>>

NoneStr == <<"None">>

(***************************************************************************)
(* Python str helpers                                                      *)
(***************************************************************************)

\* s[i] with a 0-based index
CharAt(s, i) == s[i + 1]

\* s[a:b] for 0 <= a, with b clamped to len(s)
Slice(s, a, b) ==
  LET hi == IF b > Len(s) THEN Len(s) ELSE b
  IN  IF a >= hi THEN <<>> ELSE SubSeq(s, a + 1, hi)

\* s.find(c) for a one-character c: 0-based index of the first match, or -1
Find(s, c) ==
  IF \E i \in 1..Len(s) : s[i] = c
  THEN (CHOOSE i \in 1..Len(s) : s[i] = c /\ \A j \in 1..(i - 1) : s[j] # c) - 1
  ELSE -1

\* c in s
In(c, s) == \E i \in 1..Len(s) : s[i] = c

\* c * n for a one-character c
Repeat(c, n) == [i \in 1..n |-> c]

RECURSIVE Pow2(_)
Pow2(n) == IF n = 0 THEN 1 ELSE 2 * Pow2(n - 1)

\* a | b on non-negative ints
RECURSIVE BitOr(_, _)
BitOr(a, b) ==
  IF a = 0 THEN b
  ELSE IF b = 0 THEN a
  ELSE (IF (a % 2 = 1) \/ (b % 2 = 1) THEN 1 ELSE 0) + 2 * BitOr(a \div 2, b \div 2)

Abs(n) == IF n < 0 THEN -n ELSE n

\* int(s) for a run of characters: the decimal value, or the ValueError
\* marker -1 when s is empty or holds a non-digit
DecimalDigits == <<"0","1","2","3","4","5","6","7","8","9">>

RECURSIVE DigitsValue(_)
DigitsValue(s) ==
  IF s = <<>> THEN 0
  ELSE 10 * DigitsValue(SubSeq(s, 1, Len(s) - 1)) + Find(DecimalDigits, s[Len(s)])

IsDigits(s) == s # <<>> /\ \A i \in 1..Len(s) : In(s[i], DecimalDigits)

\* f"{n:02d}" for n >= 0
RECURSIVE DecimalStr(_)
DecimalStr(n) ==
  IF n < 10 THEN <<DecimalDigits[n + 1]>>
  ELSE DecimalStr(n \div 10) \o <<DecimalDigits[(n % 10) + 1]>>

Format02d(n) == IF n < 10 THEN <<"0">> \o DecimalStr(n) ELSE DecimalStr(n)

(***************************************************************************)
(* ThousandCounter                                                         *)
(***************************************************************************)

FIRST_CHAR ==
  <<"B","C","D","F","G","H","J","K","L","N","P","Q","R","S","T","V","W","X","Y","Z",
    "b","c","d","f","g","h","j","k","l","n","p","q","r","s","t","v","w","x","y","z">>

SECOND_CHAR ==
  <<"A","B","C","D","E","F","G","H","I","J","K","L","M","N","O","P","Q","R","T","U",
    "V","W","X","Y","Z">>

\* the exception marker of a function that raises ValueError
ValueError == <<"ValueError">>

\* encode_milliseconds with the radix of the second symbol's alphabet length
\* plus one
encode_milliseconds_radix26(millis) ==
  IF millis < 0 \/ millis > 999 THEN ValueError
  ELSE LET first_index == millis \div 26
           second_index == millis % 26
       IN  IF first_index < 0 \/ first_index >= Len(FIRST_CHAR)
              \/ second_index < 0 \/ second_index >= Len(SECOND_CHAR)
           THEN ValueError
           ELSE <<CharAt(FIRST_CHAR, first_index), CharAt(SECOND_CHAR, second_index)>>

encode_milliseconds(millis) ==
  IF millis < 0 \/ millis > 999 THEN ValueError
  ELSE LET first_index == millis \div 25
           second_index == millis % 25
       IN  IF first_index < 0 \/ first_index >= Len(FIRST_CHAR)
              \/ second_index < 0 \/ second_index >= Len(SECOND_CHAR)
           THEN ValueError
           ELSE <<CharAt(FIRST_CHAR, first_index), CharAt(SECOND_CHAR, second_index)>>

\* decode_milliseconds with the radix of the second symbol's alphabet length
\* plus one
decode_milliseconds_radix26(code) ==
  IF code = <<>> \/ Len(code) # 2 THEN -1
  ELSE LET first_index == Find(FIRST_CHAR, CharAt(code, 0))
           second_index == Find(SECOND_CHAR, CharAt(code, 1))
       IN  IF first_index = -1 \/ second_index = -1 THEN -1
           ELSE first_index * 26 + second_index

decode_milliseconds(code) ==
  IF code = <<>> \/ Len(code) # 2 THEN -1
  ELSE LET first_index == Find(FIRST_CHAR, CharAt(code, 0))
           second_index == Find(SECOND_CHAR, CharAt(code, 1))
       IN  IF first_index = -1 \/ second_index = -1 THEN -1
           ELSE first_index * 25 + second_index

(***************************************************************************)
(* BitDT: alphabets, symbols, tags                                         *)
(***************************************************************************)

MONTHS == <<"A","B","C","D","E","F","G","H","I","J","K","L">>

DAYS ==
  <<"A","B","C","D","E","F","G","H","I","J","K","L","M","N","O","P","Q","R","S","T",
    "U","V","W","X","Y","Z","1","2","3","4","5">>

HOURS ==
  <<"B","C","D","E","F","G","H","J","K","L","M","N","O","P","Q","R","S","T","U","V",
    "W","X","Y","Z">>

MINUTES ==
  <<"A","B","C","D","E","F","G","H","I","J","K","L","M","N","O","P","Q","R","S","T",
    "U","V","W","X","Y","Z","a","b","c","d","e","f","g","h","i","j","k","l","m","n",
    "o","p","q","r","s","t","u","v","w","x","y","z","1","2","3","4","5","6","7","8">>

\* the year alphabet with the digit 0 in front of the digits 1..9
YEAR_CHARS_WITH_ZERO ==
  <<"A","B","C","D","E","F","G","H","I","J","K","L","M","N","O","P","Q","R","S","T",
    "U","V","W","X","Y","Z","a","b","c","d","e","f","g","h","i","j","k","l","m","n",
    "o","p","q","r","s","t","u","v","w","x","y","z","0","1","2","3","4","5","6","7","8",
    "9">>

YEAR_CHARS ==
  <<"A","B","C","D","E","F","G","H","I","J","K","L","M","N","O","P","Q","R","S","T",
    "U","V","W","X","Y","Z","a","b","c","d","e","f","g","h","i","j","k","l","m","n",
    "o","p","q","r","s","t","u","v","w","x","y","z","1","2","3","4","5","6","7","8","9">>

TWO_ZEROS == "."
THREE_ZEROS == ":"
FOUR_ZEROS == ";"
FIVE_ZEROS == "?"
SIX_ZEROS == "!"
SEVEN_ZEROS == "&"

UTC_PLUS == "+"
UTC_MINUS == "-"
TIMEZONE_DIGITS == <<"0","1","2","3","4","5","6","7","8","9">>

TYPE_EMPTY == 0
TYPE_FULL == 1
TYPE_DATE_ONLY == 2
TYPE_TIME_ONLY == 3
TYPE_DATE_HOUR == 4

(***************************************************************************)
(* The packed value.  Python computes                                      *)
(*   year<<44 | month<<40 | day<<35 | hour<<30 | minute<<24 | second<<18   *)
(*   | millis<<8 | date_type                                               *)
(* on unbounded ints.  The model keeps the result as its bit fields:       *)
(* ov = bits 64 and up, year = bits 44..63, month = 40..43, day = 35..39,  *)
(* hour = 30..34, minute = 24..29, second = 18..23, millis = 8..17 and     *)
(* tag = 0..7.  A component wider than its field spills into the fields    *)
(* above it, exactly as the shifts and ORs make it.                        *)
(***************************************************************************)

\* c >> k for a component c < 2^31
ShiftRight(c, k) == IF k >= 31 THEN 0 ELSE c \div Pow2(k)

\* bits [lo, lo + width) of (c << shift), for lo >= shift
BitsOf(c, shift, lo, width) == ShiftRight(c, lo - shift) % Pow2(width)

\* bits lo and up of (c << shift), for lo >= shift
BitsAbove(c, shift, lo) == ShiftRight(c, lo - shift)

\* Pack with the tag in the four bits TYPE_MASK names (60..63) instead of
\* the low byte
PackTagInTypeMask(year, month, day, hour, minute, second, millis, date_type) ==
  [ ov     |-> 0,
    year   |-> BitOr(year % Pow2(20), (date_type % 16) * Pow2(16)),
    month  |-> month % 16,
    day    |-> day % 32,
    hour   |-> hour % 32,
    minute |-> minute % 64,
    second |-> second % 64,
    millis |-> millis % 1024,
    tag    |-> 0 ]

Pack(year, month, day, hour, minute, second, millis, date_type) ==
  [ ov     |-> BitOr(BitsAbove(year, 44, 64),
              BitOr(BitsAbove(month, 40, 64),
              BitOr(BitsAbove(day, 35, 64),
              BitOr(BitsAbove(hour, 30, 64),
              BitOr(BitsAbove(minute, 24, 64),
              BitOr(BitsAbove(second, 18, 64),
              BitOr(BitsAbove(millis, 8, 64), BitsAbove(date_type, 0, 64)))))))),
    year   |-> BitOr(BitsOf(year, 44, 44, 20),
              BitOr(BitsOf(month, 40, 44, 20),
              BitOr(BitsOf(day, 35, 44, 20),
              BitOr(BitsOf(hour, 30, 44, 20),
              BitOr(BitsOf(minute, 24, 44, 20),
              BitOr(BitsOf(second, 18, 44, 20),
              BitOr(BitsOf(millis, 8, 44, 20), BitsOf(date_type, 0, 44, 20)))))))),
    month  |-> BitOr(BitsOf(month, 40, 40, 4),
              BitOr(BitsOf(day, 35, 40, 4),
              BitOr(BitsOf(hour, 30, 40, 4),
              BitOr(BitsOf(minute, 24, 40, 4),
              BitOr(BitsOf(second, 18, 40, 4),
              BitOr(BitsOf(millis, 8, 40, 4), BitsOf(date_type, 0, 40, 4))))))),
    day    |-> BitOr(BitsOf(day, 35, 35, 5),
              BitOr(BitsOf(hour, 30, 35, 5),
              BitOr(BitsOf(minute, 24, 35, 5),
              BitOr(BitsOf(second, 18, 35, 5),
              BitOr(BitsOf(millis, 8, 35, 5), BitsOf(date_type, 0, 35, 5)))))),
    hour   |-> BitOr(BitsOf(hour, 30, 30, 5),
              BitOr(BitsOf(minute, 24, 30, 5),
              BitOr(BitsOf(second, 18, 30, 5),
              BitOr(BitsOf(millis, 8, 30, 5), BitsOf(date_type, 0, 30, 5))))),
    minute |-> BitOr(BitsOf(minute, 24, 24, 6),
              BitOr(BitsOf(second, 18, 24, 6),
              BitOr(BitsOf(millis, 8, 24, 6), BitsOf(date_type, 0, 24, 6)))),
    second |-> BitOr(BitsOf(second, 18, 18, 6),
              BitOr(BitsOf(millis, 8, 18, 6), BitsOf(date_type, 0, 18, 6))),
    millis |-> BitOr(BitsOf(millis, 8, 8, 10), BitsOf(date_type, 0, 8, 10)),
    tag    |-> BitsOf(date_type, 0, 0, 8) ]

\* the packed value 0
EMPTY_VALUE == Pack(0, 0, 0, 0, 0, 0, 0, TYPE_EMPTY)

\* the fields of a packed value, most significant first
PackedDigits(p) ==
  <<p.ov, p.year, p.month, p.day, p.hour, p.minute, p.second, p.millis, p.tag>>

\* a < b on packed values
PackedLess(a, b) ==
  LET da == PackedDigits(a)
      db == PackedDigits(b)
  IN  \E i \in 1..9 : da[i] < db[i] /\ \A j \in 1..(i - 1) : da[j] = db[j]

(***************************************************************************)
(* BitDT values: [packed_value, timezone_offset, date_type]                *)
(***************************************************************************)

BitDT(packed_value, timezone_offset, date_type) ==
  [packed_value |-> packed_value, timezone_offset |-> timezone_offset,
   date_type |-> date_type]

\* _determine_date_type with the date-hour rule tried before the time-only
\* rule
_determine_date_type_hour_first(year, month, day, hour, minute, second, millis) ==
  IF year = 0 /\ month = 0 /\ day = 0 /\ hour = 0 /\ minute = 0 /\ second = 0 /\ millis = 0
  THEN TYPE_EMPTY
  ELSE IF hour = 0 /\ minute = 0 /\ second = 0 /\ millis = 0 THEN TYPE_DATE_ONLY
  ELSE IF minute = 0 /\ second = 0 /\ millis = 0 /\ hour # 0 THEN TYPE_DATE_HOUR
  ELSE IF year = 0 /\ month = 0 /\ day = 0 THEN TYPE_TIME_ONLY
  ELSE TYPE_FULL

_determine_date_type(year, month, day, hour, minute, second, millis) ==
  IF year = 0 /\ month = 0 /\ day = 0 /\ hour = 0 /\ minute = 0 /\ second = 0 /\ millis = 0
  THEN TYPE_EMPTY
  ELSE IF hour = 0 /\ minute = 0 /\ second = 0 /\ millis = 0 THEN TYPE_DATE_ONLY
  ELSE IF year = 0 /\ month = 0 /\ day = 0 THEN TYPE_TIME_ONLY
  ELSE IF minute = 0 /\ second = 0 /\ millis = 0 /\ hour # 0 THEN TYPE_DATE_HOUR
  ELSE TYPE_FULL

\* int(s): an optional sign and decimal digits (the timezone strings of the
\* model hold no blanks and no underscores); [ok |-> FALSE] is ValueError
PyInt(s) ==
  LET signed == s # <<>> /\ s[1] \in {"+", "-"}
      digits == IF signed THEN Slice(s, 1, Len(s)) ELSE s
  IN  IF IsDigits(digits)
      THEN [ok |-> TRUE,
            val |-> IF signed /\ s[1] = "-" THEN -DigitsValue(digits)
                    ELSE DigitsValue(digits)]
      ELSE [ok |-> FALSE, val |-> 0]

\* int(a / b) for b > 0: the quotient truncated toward zero
TruncDiv(a, b) == IF a >= 0 THEN a \div b ELSE -((-a) \div b)

_parse_timezone_offset(timezone) ==
  IF timezone = NoneStr \/ timezone = <<>> THEN 0
  ELSE IF timezone = <<"+">> \/ timezone = <<"-">> THEN 0
  ELSE LET h == IF Len(timezone) = 3 \/ Len(timezone) = 5
                   \/ (Len(timezone) = 6 /\ CharAt(timezone, 3) = ":")
                THEN PyInt(Slice(timezone, 1, 3))
                ELSE [ok |-> TRUE, val |-> 0]
           m == IF Len(timezone) = 5 THEN PyInt(Slice(timezone, 3, 5))
                ELSE IF Len(timezone) = 6 /\ CharAt(timezone, 3) = ":"
                THEN PyInt(Slice(timezone, 4, 6))
                ELSE [ok |-> TRUE, val |-> 0]
       IN  IF ~h.ok \/ ~m.ok THEN 0
           ELSE LET total == h.val * 60 + m.val
                    total_minutes == IF timezone[1] = "-" THEN -total ELSE total
                IN  TruncDiv(total_minutes, 15)

_format_timezone_offset(offset) ==
  IF offset = 0 THEN NoneStr
  ELSE LET total_minutes == offset * 15
           hours == Abs(total_minutes) \div 60
           minutes == Abs(total_minutes) % 60
           sign == IF total_minutes >= 0 THEN "+" ELSE "-"
       IN  IF minutes = 0 THEN <<sign>> \o Format02d(hours)
           ELSE <<sign>> \o Format02d(hours) \o Format02d(minutes)

from_primitives(year, month, day, hour, minute, second, millis, timezone) ==
  LET date_type == _determine_date_type(year, month, day, hour, minute, second, millis)
      packed == Pack(year, month, day, hour, minute, second, millis, date_type)
      tz_offset == _parse_timezone_offset(timezone)
  IN  BitDT(packed, tz_offset, date_type)

create_empty == BitDT(EMPTY_VALUE, 0, TYPE_EMPTY)

get_year(dt) ==
  IF dt.date_type = TYPE_EMPTY \/ dt.date_type = TYPE_TIME_ONLY THEN -1
  ELSE dt.packed_value.year

get_month(dt) ==
  IF dt.date_type = TYPE_EMPTY \/ dt.date_type = TYPE_TIME_ONLY THEN -1
  ELSE dt.packed_value.month

get_day(dt) ==
  IF dt.date_type = TYPE_EMPTY \/ dt.date_type = TYPE_TIME_ONLY THEN -1
  ELSE dt.packed_value.day

\* get_hour with the absence rule of the date accessors
get_hour_as_date_field(dt) ==
  IF dt.date_type = TYPE_EMPTY \/ dt.date_type = TYPE_TIME_ONLY THEN -1
  ELSE dt.packed_value.hour

get_hour(dt) ==
  IF dt.date_type = TYPE_EMPTY \/ dt.date_type = TYPE_DATE_ONLY THEN -1
  ELSE dt.packed_value.hour

get_minute(dt) ==
  IF dt.date_type = TYPE_EMPTY \/ dt.date_type = TYPE_DATE_ONLY THEN -1
  ELSE IF dt.date_type = TYPE_DATE_HOUR THEN 0
  ELSE dt.packed_value.minute

get_second(dt) ==
  IF dt.date_type = TYPE_EMPTY \/ dt.date_type = TYPE_DATE_ONLY THEN -1
  ELSE IF dt.date_type = TYPE_DATE_HOUR THEN 0
  ELSE dt.packed_value.second

get_millis(dt) ==
  IF dt.date_type = TYPE_EMPTY \/ dt.date_type = TYPE_DATE_ONLY THEN -1
  ELSE IF dt.date_type = TYPE_DATE_HOUR THEN 0
  ELSE dt.packed_value.millis

get_timezone(dt) == _format_timezone_offset(dt.timezone_offset)

is_empty(dt) == dt.date_type = TYPE_EMPTY

encode_year(year) ==
  IF year < 0 \/ year >= 226981 THEN ValueError
  ELSE <<CharAt(YEAR_CHARS, year \div (61 * 61)),
         CharAt(YEAR_CHARS, (year \div 61) % 61),
         CharAt(YEAR_CHARS, year % 61)>>

decode_year(year_code) ==
  IF year_code = <<>> \/ Len(year_code) # 3 THEN -1
  ELSE LET idx1 == Find(YEAR_CHARS, CharAt(year_code, 0))
           idx2 == Find(YEAR_CHARS, CharAt(year_code, 1))
           idx3 == Find(YEAR_CHARS, CharAt(year_code, 2))
       IN  IF idx1 = -1 \/ idx2 = -1 \/ idx3 = -1 THEN -1
           ELSE idx1 * 61 * 61 + idx2 * 61 + idx3

to_absolute_year(relative_year) == relative_year - 50000

from_absolute_year(absolute_year) == absolute_year + 50000

\* _encode_zero_run that writes a run of more than 7 zeros as the 7-zero symbol
\* alone
_encode_zero_run_capped(zero_count) ==
  IF zero_count = 1 THEN <<"0">>
  ELSE IF zero_count = 2 THEN <<".">>
  ELSE IF zero_count = 3 THEN <<":">>
  ELSE IF zero_count = 4 THEN <<";">>
  ELSE IF zero_count = 5 THEN <<"?">>
  ELSE IF zero_count = 6 THEN <<"!">>
  ELSE <<"&">>

_encode_zero_run(zero_count) ==
  IF zero_count = 1 THEN <<"0">>
  ELSE IF zero_count = 2 THEN <<".">>
  ELSE IF zero_count = 3 THEN <<":">>
  ELSE IF zero_count = 4 THEN <<";">>
  ELSE IF zero_count = 5 THEN <<"?">>
  ELSE IF zero_count = 6 THEN <<"!">>
  ELSE IF zero_count = 7 THEN <<"&">>
  ELSE <<"&">> \o Repeat("0", zero_count - 7)

\* the loop of _compress_zeros from character i (1-based) on, with
\* zero_count zeros pending
RECURSIVE CompressFrom(_, _, _)
CompressFrom(fields, i, zero_count) ==
  IF i > Len(fields)
  THEN IF zero_count > 0 THEN _encode_zero_run(zero_count) ELSE <<>>
  ELSE IF fields[i] = "0" THEN CompressFrom(fields, i + 1, zero_count + 1)
  ELSE (IF zero_count > 0 THEN _encode_zero_run(zero_count) ELSE <<>>)
       \o <<fields[i]>> \o CompressFrom(fields, i + 1, 0)

_compress_zeros(fields) == CompressFrom(fields, 1, 0)

ExpandChar(c) ==
  IF c = "0" THEN <<"0">>
  ELSE IF c = "." THEN Repeat("0", 2)
  ELSE IF c = ":" THEN Repeat("0", 3)
  ELSE IF c = ";" THEN Repeat("0", 4)
  ELSE IF c = "?" THEN Repeat("0", 5)
  ELSE IF c = "!" THEN Repeat("0", 6)
  ELSE IF c = "&" THEN Repeat("0", 7)
  ELSE <<c>>

RECURSIVE _expand_zeros(_)
_expand_zeros(compressed) ==
  IF compressed = <<>> THEN <<>>
  ELSE ExpandChar(compressed[1]) \o _expand_zeros(Tail(compressed))

_is_valid_timezone(timezone) ==
  IF timezone = <<>> \/ Len(timezone) < 2 THEN FALSE
  ELSE IF timezone[1] \notin {UTC_PLUS, UTC_MINUS} THEN FALSE
  ELSE LET digits == Slice(timezone, 1, Len(timezone))
       IN  IF \E i \in 1..Len(digits) : ~In(digits[i], TIMEZONE_DIGITS) THEN FALSE
           ELSE Len(digits) = 2 \/ Len(digits) = 4

_parse_timezone(bit_dt) ==
  IF bit_dt = <<>> \/ Len(bit_dt) < 2 THEN NoneStr
  ELSE IF bit_dt[Len(bit_dt)] \in {UTC_PLUS, UTC_MINUS} THEN <<bit_dt[Len(bit_dt)]>>
  ELSE LET hits == {i \in 1..Len(bit_dt) :
                      /\ bit_dt[i] \in {UTC_PLUS, UTC_MINUS}
                      /\ _is_valid_timezone(SubSeq(bit_dt, i, Len(bit_dt)))}
       IN  IF hits = {} THEN NoneStr
           ELSE LET i == CHOOSE k \in hits : \A j \in hits : j <= k
                IN  SubSeq(bit_dt, i, Len(bit_dt))

_extract_datetime_part(bit_dt) ==
  IF bit_dt = NoneStr THEN NoneStr
  ELSE LET timezone == _parse_timezone(bit_dt)
       IN  IF timezone # NoneStr /\ timezone # <<>>
           THEN Slice(bit_dt, 0, Len(bit_dt) - Len(timezone))
           ELSE bit_dt

(***************************************************************************)
(* BitDT.encode                                                            *)
(***************************************************************************)

\* Optional[int] arguments: <<>> is None, <<v>> is the int v
Some(v) == <<v>>

NoneInt == <<>>

encode_date_time(year, month, day, hour, minute, second, millis, timezone) ==
  LET year_code == IF year # NoneInt /\ year[1] >= 0 THEN encode_year(year[1])
                   ELSE <<"0">>
      month_char == IF month # NoneInt /\ month[1] >= 0
                    THEN IF month[1] < 0 \/ month[1] >= Len(MONTHS) THEN ValueError
                         ELSE <<CharAt(MONTHS, month[1])>>
                    ELSE <<"0">>
      day_char == IF day # NoneInt /\ day[1] >= 1
                  THEN IF day[1] < 1 \/ day[1] > Len(DAYS) THEN ValueError
                       ELSE <<CharAt(DAYS, day[1] - 1)>>
                  ELSE <<"0">>
      hour_char == IF hour # NoneInt /\ hour[1] >= 0
                   THEN IF hour[1] < 0 \/ hour[1] >= Len(HOURS) THEN ValueError
                        ELSE <<CharAt(HOURS, hour[1])>>
                   ELSE <<"0">>
      minute_char == IF minute # NoneInt /\ minute[1] >= 0
                     THEN IF minute[1] < 0 \/ minute[1] >= Len(MINUTES) THEN ValueError
                          ELSE <<CharAt(MINUTES, minute[1])>>
                     ELSE <<"0">>
      second_char == IF second # NoneInt /\ second[1] >= 0
                     THEN IF second[1] < 0 \/ second[1] >= Len(MINUTES) THEN ValueError
                          ELSE <<CharAt(MINUTES, second[1])>>
                     ELSE <<"0">>
      millis_code == IF millis # NoneInt /\ millis[1] >= 0
                     THEN IF millis[1] = 0 THEN <<"0">>
                          ELSE encode_milliseconds(millis[1])
                     ELSE <<"0">>
      codes == <<year_code, month_char, day_char, hour_char, minute_char,
                 second_char, millis_code>>
  IN  \* except Exception: return "&"
      IF \E i \in 1..7 : codes[i] = ValueError THEN <<"&">>
      ELSE LET uncompressed == year_code \o month_char \o day_char \o hour_char
                                \o minute_char \o second_char \o millis_code
               date_time_part == _compress_zeros(uncompressed)
           IN  IF timezone # NoneStr /\ timezone # <<>>
               THEN date_time_part \o timezone
               ELSE date_time_part

\* None if v == -1 else v
NoneIfAbsent(v) == IF v = -1 THEN NoneInt ELSE Some(v)

\* encode that appends the timezone to the text of an Empty value too
encode_affix_on_empty(dt) ==
  IF is_empty(dt)
  THEN IF get_timezone(dt) = NoneStr THEN <<"&">> ELSE <<"&">> \o get_timezone(dt)
  ELSE encode_date_time(NoneIfAbsent(get_year(dt)), NoneIfAbsent(get_month(dt)),
                        NoneIfAbsent(get_day(dt)), NoneIfAbsent(get_hour(dt)),
                        NoneIfAbsent(IF dt.date_type = TYPE_DATE_HOUR THEN -1 ELSE get_minute(dt)),
                        NoneIfAbsent(IF dt.date_type = TYPE_DATE_HOUR THEN -1 ELSE get_second(dt)),
                        NoneIfAbsent(IF dt.date_type = TYPE_DATE_HOUR THEN -1 ELSE get_millis(dt)),
                        get_timezone(dt))

encode(dt) ==
  IF is_empty(dt) THEN <<"&">>
  ELSE LET timezone == get_timezone(dt)
           date_only == dt.date_type = TYPE_DATE_ONLY
           time_only == dt.date_type = TYPE_TIME_ONLY
           date_hour == dt.date_type = TYPE_DATE_HOUR
           year == IF time_only THEN -1 ELSE get_year(dt)
           month == IF time_only THEN -1 ELSE get_month(dt)
           day == IF time_only THEN -1 ELSE get_day(dt)
           hour == IF date_only THEN -1 ELSE get_hour(dt)
           minute == IF date_only \/ date_hour THEN -1 ELSE get_minute(dt)
           second == IF date_only \/ date_hour THEN -1 ELSE get_second(dt)
           millis == IF date_only \/ date_hour THEN -1 ELSE get_millis(dt)
       IN  encode_date_time(NoneIfAbsent(year), NoneIfAbsent(month), NoneIfAbsent(day),
                            NoneIfAbsent(hour), NoneIfAbsent(minute),
                            NoneIfAbsent(second), NoneIfAbsent(millis), timezone)

(***************************************************************************)
(* BitDT.decode                                                            *)
(***************************************************************************)

_is_valid_encoded_char(c) ==
  \/ In(c, YEAR_CHARS)
  \/ In(c, MONTHS)
  \/ In(c, DAYS)
  \/ In(c, HOURS)
  \/ In(c, MINUTES)
  \/ In(c, <<"0", ".", ":", ";", "?", "!", "&">>)

\* The result of one field's step of decode: ok = FALSE is the early
\* "return cls.create_empty()"; otherwise v is the field and pos the cursor.
FieldFail == [ok |-> FALSE, v |-> -1, pos |-> 0]

FieldOk(v, pos) == [ok |-> TRUE, v |-> v, pos |-> pos]

\* lines 477-487
DecodeYearField(expanded, pos) ==
  IF pos < Len(expanded)
  THEN IF CharAt(expanded, pos) = "0" THEN FieldOk(-1, pos + 1)
       ELSE IF pos + 2 < Len(expanded)
       THEN LET year == decode_year(Slice(expanded, pos, pos + 3))
            IN  IF year = -1 THEN FieldFail ELSE FieldOk(year, pos + 3)
       ELSE FieldFail
  ELSE FieldOk(-1, pos)

\* lines 489-528: a one-symbol field; the value is the symbol's index plus
\* base (1 for the day, 0 otherwise), and a symbol outside the alphabet fails
DecodeCharField(expanded, pos, alphabet, base) ==
  IF pos < Len(expanded)
  THEN IF CharAt(expanded, pos) = "0" THEN FieldOk(-1, pos + 1)
       ELSE LET idx == Find(alphabet, CharAt(expanded, pos))
            IN  IF idx = -1 THEN FieldFail ELSE FieldOk(idx + base, pos + 1)
  ELSE FieldOk(-1, pos)

\* lines 530-540
DecodeMillisField(expanded, pos) ==
  IF pos < Len(expanded)
  THEN IF CharAt(expanded, pos) = "0" THEN FieldOk(0, pos + 1)
       ELSE IF pos + 1 < Len(expanded)
       THEN LET millis == decode_milliseconds(Slice(expanded, pos, pos + 2))
            IN  IF millis = -1 THEN FieldFail ELSE FieldOk(millis, pos + 2)
       ELSE FieldFail
  ELSE FieldOk(-1, pos)

\* lines 477-540: field k of the seven, read at pos
DecodeField(k, expanded, pos) ==
  IF k = 1 THEN DecodeYearField(expanded, pos)
  ELSE IF k = 2 THEN DecodeCharField(expanded, pos, MONTHS, 0)
  ELSE IF k = 3 THEN DecodeCharField(expanded, pos, DAYS, 1)
  ELSE IF k = 4 THEN DecodeCharField(expanded, pos, HOURS, 0)
  ELSE IF k = 5 THEN DecodeCharField(expanded, pos, MINUTES, 0)
  ELSE IF k = 6 THEN DecodeCharField(expanded, pos, MINUTES, 0)
  ELSE DecodeMillisField(expanded, pos)

\* lines 474-540: the walk over the expanded body from field k on, with the
\* fields read so far in vals; ok = FALSE when a field failed, else the seven
\* fields <<year, month, day, hour, minute, second, millis>> (-1 = absent)
\* and the final cursor
RECURSIVE WalkFields(_, _, _, _)
WalkFields(expanded, k, pos, vals) ==
  IF k > 7 THEN [ok |-> TRUE, vals |-> vals, pos |-> pos]
  ELSE LET r == DecodeField(k, expanded, pos)
       IN  IF ~r.ok THEN [ok |-> FALSE, vals |-> vals, pos |-> pos]
           ELSE WalkFields(expanded, k + 1, r.pos, Append(vals, r.v))

ParseFields(expanded) == WalkFields(expanded, 1, 0, <<>>)

\* x if x != -1 else 0
ZeroIfAbsent(v) == IF v # -1 THEN v ELSE 0

\* lines 542-555, on the fields f the walk returned
DecodeFields(f, timezone_str) ==
  IF ~f.ok THEN create_empty
  ELSE IF \A i \in 1..7 : f.vals[i] = -1 THEN create_empty
  ELSE from_primitives(ZeroIfAbsent(f.vals[1]), ZeroIfAbsent(f.vals[2]),
                       ZeroIfAbsent(f.vals[3]), ZeroIfAbsent(f.vals[4]),
                       ZeroIfAbsent(f.vals[5]), ZeroIfAbsent(f.vals[6]),
                       ZeroIfAbsent(f.vals[7]), timezone_str)

\* lines 468-555, on the expanded body
\* the field walk entered without the character check of line 471
DecodeExpandedUnchecked(expanded, timezone_str) ==
  IF Len(expanded) < 7 THEN create_empty
  ELSE DecodeFields(ParseFields(expanded), timezone_str)

DecodeExpanded(expanded, timezone_str) ==
  IF Len(expanded) < 7 THEN create_empty
  ELSE IF \E i \in 1..Len(expanded) : ~_is_valid_encoded_char(expanded[i])
  THEN create_empty
  ELSE DecodeFields(ParseFields(expanded), timezone_str)

\* lines 460-555, on the body and the affix
DecodeBody(date_time_part, timezone_str) ==
  IF date_time_part = <<>> THEN create_empty
  ELSE IF date_time_part[1] # "0" /\ Len(date_time_part) < 3 THEN create_empty
  ELSE DecodeExpanded(_expand_zeros(date_time_part), timezone_str)

decode(bit_dt) ==
  IF bit_dt = NoneStr THEN create_empty
  ELSE DecodeBody(_extract_datetime_part(bit_dt), _parse_timezone(bit_dt))

\* __eq__
BitDTEq(a, b) ==
  a.packed_value = b.packed_value /\ a.timezone_offset = b.timezone_offset

compare_to(a, b) ==
  IF PackedLess(a.packed_value, b.packed_value) THEN -1
  ELSE IF PackedLess(b.packed_value, a.packed_value) THEN 1
  ELSE 0

before(a, b) == PackedLess(a.packed_value, b.packed_value)

after(a, b) == PackedLess(b.packed_value, a.packed_value)

(***************************************************************************)
(* Text pipeline: x = from_primitives(args), text = x.encode(),            *)
(* y = decode(text), text2 = y.encode(), z = decode(text2).                *)
(***************************************************************************)

\* a variable no operation has set yet
Unset == <<"unset">>

\* component values inside each field's domain
YearsIn == {0, 50000, 226980}
MonthsIn == {0, 11}
DaysIn == {0, 1, 31}
HoursIn == {0, 23}
MinutesIn == {0, 59}
SecondsIn == {0, 59}
MillisIn == {0, 1, 999}

\* component values above each field's domain: the first value past the
\* domain, and the first value past the field's bit width
YearsOut == {226981, 1048576}
MonthsOut == {12, 16}
DaysOut == {32}
HoursOut == {24, 32}
MinutesOut == {60, 64}
SecondsOut == {60, 64}
MillisOut == {1000, 1024}

Timezones ==
  {NoneStr, <<"+","0","0">>, <<"-","0","8">>, <<"+","0","5","3","0">>,
   <<"+","1","2">>, <<"+","9","9","9","9">>}

InDomain(a) ==
  /\ a.year <= 226980 /\ a.month <= 11 /\ a.day <= 31 /\ a.hour <= 23
  /\ a.minute <= 59 /\ a.second <= 59 /\ a.millis <= 999

\* how many components of a lie above their domain
OutCount(a) ==
  (IF a.year > 226980 THEN 1 ELSE 0) + (IF a.month > 11 THEN 1 ELSE 0)
  + (IF a.day > 31 THEN 1 ELSE 0) + (IF a.hour > 23 THEN 1 ELSE 0)
  + (IF a.minute > 59 THEN 1 ELSE 0) + (IF a.second > 59 THEN 1 ELSE 0)
  + (IF a.millis > 999 THEN 1 ELSE 0)

\* the calls of from_primitives the model makes: every combination of
\* in-domain components, and those with one component out of its domain
IsTextArgs(a) ==
  /\ a.year \in YearsIn \cup YearsOut
  /\ a.month \in MonthsIn \cup MonthsOut
  /\ a.day \in DaysIn \cup DaysOut
  /\ a.hour \in HoursIn \cup HoursOut
  /\ a.minute \in MinutesIn \cup MinutesOut
  /\ a.second \in SecondsIn \cup SecondsOut
  /\ a.millis \in MillisIn \cup MillisOut
  /\ a.timezone \in Timezones
  /\ OutCount(a) <= 1

FromArgs(a) ==
  from_primitives(a.year, a.month, a.day, a.hour, a.minute, a.second, a.millis,
                  a.timezone)

TextInit ==
  /\ pc = "start"
  /\ \E year \in YearsIn \cup YearsOut, month \in MonthsIn \cup MonthsOut,
        day \in DaysIn \cup DaysOut, hour \in HoursIn \cup HoursOut,
        minute \in MinutesIn \cup MinutesOut, second \in SecondsIn \cup SecondsOut,
        millis \in MillisIn \cup MillisOut, timezone \in Timezones :
       /\ args = [year |-> year, month |-> month, day |-> day, hour |-> hour,
                  minute |-> minute, second |-> second, millis |-> millis,
                  timezone |-> timezone]
       /\ IsTextArgs(args)
  /\ x = Unset /\ text = Unset /\ y = Unset /\ text2 = Unset /\ z = Unset
  /\ result = Unset

Construct ==
  /\ pc = "start"
  /\ x' = FromArgs(args)
  /\ pc' = "built"
  /\ UNCHANGED <<args, text, y, text2, z, result>>

Encode ==
  /\ pc = "built"
  /\ text' = encode(x)
  /\ pc' = "encoded"
  /\ UNCHANGED <<args, x, y, text2, z, result>>

Decode ==
  /\ pc = "encoded"
  /\ y' = decode(text)
  /\ pc' = "decoded"
  /\ UNCHANGED <<args, x, text, text2, z, result>>

Reencode ==
  /\ pc = "decoded"
  /\ text2' = encode(y)
  /\ pc' = "reencoded"
  /\ UNCHANGED <<args, x, text, y, z, result>>

Redecode ==
  /\ pc = "reencoded"
  /\ z' = decode(text2)
  /\ pc' = "done"
  /\ UNCHANGED <<args, x, text, y, text2, result>>

TextNext == Construct \/ Encode \/ Decode \/ Reencode \/ Redecode

SpecText == TextInit /\ [][TextNext]_vars

Accessors(dt) ==
  <<get_year(dt), get_month(dt), get_day(dt), get_hour(dt), get_minute(dt),
    get_second(dt), get_millis(dt), get_timezone(dt)>>

\* the timezone strings claim C1 lists
C1Timezones ==
  {NoneStr, <<"+","0","0">>, <<"-","0","8">>, <<"+","0","5","3","0">>, <<"+","1","2">>}

C1Domain(a) == InDomain(a) /\ a.day >= 1 /\ a.timezone \in C1Timezones

\* C1: for x built from in-domain components with day >= 1 and one of the
\* listed timezones, decode(x.encode()) has the same year, month, day, hour,
\* minute, second, millis and timezone accessors as x.
C1_TextRoundTrip ==
  (pc \in {"decoded", "reencoded", "done"} /\ C1Domain(args))
    => Accessors(y) = Accessors(x)

\* a full-precision value with a millisecond code and an affix, decoded
C1_Witness ==
  /\ pc = "decoded" /\ C1Domain(args)
  /\ x.date_type = TYPE_FULL /\ args.millis = 999 /\ args.year = 226980
  /\ args.timezone = <<"+","0","5","3","0">>
  /\ get_millis(y) = 999 /\ get_timezone(y) = <<"+","0","5","3","0">>

\* C2 holds when no component is above its domain
C2_IdempotentInDomain == (pc = "done" /\ InDomain(args)) => BitDTEq(z, y)

\* C2: with y = decode(x.encode()) for x built from any components and any
\* timezone string, decode(y.encode()) == y.
C2_Idempotent == (pc = "done") => BitDTEq(z, y)

\* C5: a value with a component above its field's domain encodes to "&".
C5_OutOfDomainEncodesEmpty ==
  (pc \in {"encoded", "decoded", "reencoded", "done"} /\ ~InDomain(args))
    => text = <<"&">>

\* the date part and the part below the hour of the components a are zero
ZeroDate(a) == a.year = 0 /\ a.month = 0 /\ a.day = 0

ZeroBelowHour(a) == a.minute = 0 /\ a.second = 0 /\ a.millis = 0

\* the tag of the first matching rule
FirstMatchingTag(a) ==
  CASE ZeroDate(a) /\ a.hour = 0 /\ ZeroBelowHour(a) -> TYPE_EMPTY
    [] ~ZeroDate(a) /\ a.hour = 0 /\ ZeroBelowHour(a) -> TYPE_DATE_ONLY
    [] ZeroDate(a) /\ ~(a.hour = 0 /\ ZeroBelowHour(a)) -> TYPE_TIME_ONLY
    [] ~ZeroDate(a) /\ a.hour # 0 /\ ZeroBelowHour(a) -> TYPE_DATE_HOUR
    [] ~ZeroDate(a) /\ ~ZeroBelowHour(a) -> TYPE_FULL

\* C14: from_primitives assigns the tag of the first matching rule (all
\* seven components zero: Empty; else hour, minute, second and millis zero:
\* DateOnly; else year, month and day zero: TimeOnly; else minute, second and
\* millis zero and hour nonzero: DateHour; otherwise Full), and the low 8
\* bits of the packed value hold that tag.
C14_TagDerivation ==
  (pc # "start")
    => /\ x.date_type = FirstMatchingTag(args)
       /\ x.packed_value.tag = x.date_type

\* a time of day with only the hour set: the time-only rule and the
\* date-hour rule both match, and the earlier one decides
C14_Witness ==
  /\ pc = "built"
  /\ ZeroDate(args) /\ args.hour = 23 /\ ZeroBelowHour(args)
  /\ x.date_type = TYPE_TIME_ONLY
  /\ x.packed_value.tag = TYPE_TIME_ONLY

\* v when the tag is one of present, 0 when it is one of zero, else -1
ByTag(dt, present, zero, v) ==
  IF dt.date_type \in present THEN v
  ELSE IF dt.date_type \in zero THEN 0
  ELSE -1

\* C15: for a value built from in-domain components, get_year, get_month
\* and get_day return the supplied components for Full, DateOnly and DateHour
\* and -1 for Empty and TimeOnly; get_hour returns the supplied hour for Full,
\* TimeOnly and DateHour and -1 for Empty and DateOnly; get_minute, get_second
\* and get_millis return the supplied components for Full and TimeOnly, 0 for
\* DateHour and -1 for Empty and DateOnly; no field's bits overlap another
\* field's: every field of the packed value holds exactly its own component.
C15_AccessorsByTag ==
  (pc # "start" /\ InDomain(args))
    => LET DateTags == {TYPE_FULL, TYPE_DATE_ONLY, TYPE_DATE_HOUR}
           HourTags == {TYPE_FULL, TYPE_TIME_ONLY, TYPE_DATE_HOUR}
           TimeTags == {TYPE_FULL, TYPE_TIME_ONLY}
       IN  /\ get_year(x) = ByTag(x, DateTags, {}, args.year)
           /\ get_month(x) = ByTag(x, DateTags, {}, args.month)
           /\ get_day(x) = ByTag(x, DateTags, {}, args.day)
           /\ get_hour(x) = ByTag(x, HourTags, {}, args.hour)
           /\ get_minute(x) = ByTag(x, TimeTags, {TYPE_DATE_HOUR}, args.minute)
           /\ get_second(x) = ByTag(x, TimeTags, {TYPE_DATE_HOUR}, args.second)
           /\ get_millis(x) = ByTag(x, TimeTags, {TYPE_DATE_HOUR}, args.millis)
           /\ PackedDigits(x.packed_value)
                = <<0, args.year, args.month, args.day, args.hour, args.minute,
                    args.second, args.millis, x.date_type>>

\* a time of day at the top of every time field: the date accessors report
\* absence, the time accessors the components
C15_Witness ==
  /\ pc = "built" /\ InDomain(args)
  /\ x.date_type = TYPE_TIME_ONLY
  /\ args.hour = 23 /\ args.minute = 59 /\ args.second = 59 /\ args.millis = 999
  /\ get_year(x) = -1 /\ get_month(x) = -1 /\ get_day(x) = -1
  /\ get_hour(x) = 23 /\ get_minute(x) = 59 /\ get_second(x) = 59
  /\ get_millis(x) = 999

(***************************************************************************)
(* Ordering: x and y built from two component tuples, then compared.       *)
(***************************************************************************)

OrderYears == {0, 226980}
OrderMonths == {0, 11}
OrderDays == {0, 31}
OrderHours == {0, 23}
OrderMinutes == {0, 59}
OrderSeconds == {0, 59}
OrderMillis == {0, 1}

\* the timezone strings of x and of y
OrderTimezones == {<<NoneStr, NoneStr>>, <<<<"+","0","5","3","0">>, <<"-","0","8">>>>}

OrderInit ==
  /\ pc = "start"
  /\ \E a, b \in [year : OrderYears, month : OrderMonths, day : OrderDays,
                  hour : OrderHours, minute : OrderMinutes, second : OrderSeconds,
                  millis : OrderMillis], tz \in OrderTimezones :
       args = [a |-> a, b |-> b, tza |-> tz[1], tzb |-> tz[2]]
  /\ x = Unset /\ text = Unset /\ y = Unset /\ text2 = Unset /\ z = Unset
  /\ result = Unset

ConstructPair ==
  /\ pc = "start"
  /\ x' = from_primitives(args.a.year, args.a.month, args.a.day, args.a.hour,
                          args.a.minute, args.a.second, args.a.millis, args.tza)
  /\ y' = from_primitives(args.b.year, args.b.month, args.b.day, args.b.hour,
                          args.b.minute, args.b.second, args.b.millis, args.tzb)
  /\ pc' = "built"
  /\ UNCHANGED <<args, text, text2, z, result>>

Compare ==
  /\ pc = "built"
  /\ result' = [compare_to |-> compare_to(x, y), before |-> before(x, y),
                after |-> after(x, y)]
  /\ pc' = "compared"
  /\ UNCHANGED <<args, x, text, y, text2, z>>

OrderNext == ConstructPair \/ Compare

SpecOrder == OrderInit /\ [][OrderNext]_vars

ComponentTuple(a) == <<a.year, a.month, a.day, a.hour, a.minute, a.second, a.millis>>

\* s is lexicographically smaller than t
LexLess(s, t) ==
  \E i \in 1..Len(s) : s[i] < t[i] /\ \A j \in 1..(i - 1) : s[j] = t[j]

\* C3: when the component tuples of x and y differ, x.compare_to(y) is -1
\* exactly when x's tuple is lexicographically smaller and 1 exactly when it
\* is larger, whatever the precision tags and timezone offsets of x and y.
C3_Ordering ==
  (pc = "compared" /\ ComponentTuple(args.a) # ComponentTuple(args.b))
    => /\ (result.compare_to = -1) = LexLess(ComponentTuple(args.a), ComponentTuple(args.b))
       /\ (result.compare_to = 1) = LexLess(ComponentTuple(args.b), ComponentTuple(args.a))
       /\ result.before = (result.compare_to = -1)
       /\ result.after = (result.compare_to = 1)

\* x is smaller by one millisecond only, carries the larger tag and another
\* timezone offset than y
C3_Witness ==
  /\ pc = "compared"
  /\ ComponentTuple(args.a) = <<226980, 11, 31, 23, 0, 0, 0>>
  /\ ComponentTuple(args.b) = <<226980, 11, 31, 23, 0, 0, 1>>
  /\ x.date_type = TYPE_DATE_HOUR /\ y.date_type = TYPE_FULL
  /\ x.timezone_offset = 22 /\ y.timezone_offset = -32
  /\ result.compare_to = -1

(***************************************************************************)
(* Decoding arbitrary text: a text typed character by character (or None)  *)
(* is handed to BitDT.decode.                                              *)
(***************************************************************************)

MaxTextLen == 5

\* a literal zero, a run symbol, a symbol of every field alphabet, a symbol of
\* the year/minute alphabets only, a day/minute digit that is also an affix
\* digit, a symbol of no alphabet, and the affix sign
TypedChars == {"0", ".", "B", "z", "5", "#", "+"}

DecodeInit ==
  /\ pc = "typing"
  /\ text = <<>>
  /\ args = Unset /\ x = Unset /\ y = Unset /\ text2 = Unset /\ z = Unset
  /\ result = Unset

TypeChar ==
  /\ pc = "typing"
  /\ Len(text) < MaxTextLen
  /\ \E c \in TypedChars : text' = Append(text, c)
  /\ UNCHANGED <<pc, args, x, y, text2, z, result>>

DecodeText ==
  /\ pc = "typing"
  /\ y' = decode(text)
  /\ pc' = "decoded"
  /\ UNCHANGED <<args, x, text, text2, z, result>>

DecodeNone ==
  /\ pc = "typing"
  /\ text = <<>>
  /\ text' = NoneStr
  /\ y' = decode(NoneStr)
  /\ pc' = "decoded"
  /\ UNCHANGED <<args, x, text2, z, result>>

DecodeNext == TypeChar \/ DecodeText \/ DecodeNone

SpecDecode == DecodeInit /\ [][DecodeNext]_vars

\* token width of field k (year, month, day, hour, minute, second, millis)
TokenWidth(k) == IF k = 1 THEN 3 ELSE IF k = 7 THEN 2 ELSE 1

\* alphabet of the i-th symbol of field k's token
TokenAlphabet(k, i) ==
  CASE k = 1 -> YEAR_CHARS
    [] k = 2 -> MONTHS
    [] k = 3 -> DAYS
    [] k = 4 -> HOURS
    [] k \in {5, 6} -> MINUTES
    [] k = 7 -> IF i = 1 THEN FIRST_CHAR ELSE SECOND_CHAR

TokenInAlphabet(k, tok) ==
  /\ Len(tok) = TokenWidth(k)
  /\ \A i \in 1..Len(tok) : In(tok[i], TokenAlphabet(k, i))

\* some field token of the expanded body e, read from field k at 1-based
\* position pos on, is not in its field's alphabet
RECURSIVE HasBadToken(_, _, _)
HasBadToken(e, k, pos) ==
  IF k > 7 \/ pos > Len(e) THEN FALSE
  ELSE IF e[pos] = "0" THEN HasBadToken(e, k + 1, pos + 1)
  ELSE IF ~TokenInAlphabet(k, Slice(e, pos - 1, pos - 1 + TokenWidth(k))) THEN TRUE
  ELSE HasBadToken(e, k + 1, pos + TokenWidth(k))

EmptyBody(t) == _extract_datetime_part(t) = <<>>

ShortBody(t) ==
  /\ ~EmptyBody(t)
  /\ _extract_datetime_part(t)[1] # "0"
  /\ Len(_extract_datetime_part(t)) < 3

ShortExpansion(t) == Len(_expand_zeros(_extract_datetime_part(t))) < 7

ForeignChar(t) ==
  \E i \in 1..Len(_extract_datetime_part(t)) :
    LET c == _extract_datetime_part(t)[i]
    IN  ~(\/ In(c, YEAR_CHARS) \/ In(c, MONTHS) \/ In(c, DAYS) \/ In(c, HOURS)
          \/ In(c, MINUTES) \/ In(c, FIRST_CHAR) \/ In(c, SECOND_CHAR)
          \/ c \in {"0", ".", ":", ";", "?", "!", "&"})

BadToken(t) == HasBadToken(_expand_zeros(_extract_datetime_part(t)), 1, 1)

Malformed(t) ==
  \/ t = NoneStr
  \/ t = <<>>
  \/ EmptyBody(t)
  \/ ShortBody(t)
  \/ ShortExpansion(t)
  \/ ForeignChar(t)
  \/ BadToken(t)

\* C4: decode returns a value with is_empty() true for None, the empty
\* string, a body empty after the affix is stripped, a body not starting with
\* '0' of fewer than 3 characters, a body expanding to fewer than 7
\* characters, a body with a character outside the field alphabets and the
\* symbols 0 . : ; ? ! &, and a body with a field token outside its alphabet.
C4_MalformedIsEmpty ==
  (pc = "decoded" /\ Malformed(text)) => is_empty(y)

\* a body of full expanded length whose only defect is a foreign character
\* behind the last field
C4_Witness ==
  /\ pc = "decoded"
  /\ text = <<".", "B", ".", ".", "#">>
  /\ ForeignChar(text) /\ ~ShortExpansion(text) /\ ~BadToken(text)
  /\ is_empty(y)

(***************************************************************************)
(* Python int beyond 32 bits: a magnitude is the sequence of its base-1000  *)
(* digits, most significant first and without a leading zero (zero is <<>>, *)
(* 1718323456789 is <<1, 718, 323, 456, 789>>); an int is a sign and a      *)
(* magnitude.                                                              *)
(***************************************************************************)

RECURSIVE MagOfNat(_)
MagOfNat(c) == IF c = 0 THEN <<>> ELSE Append(MagOfNat(c \div 1000), c % 1000)

RECURSIVE MagToNat(_)
MagToNat(m) ==
  IF m = <<>> THEN 0 ELSE MagToNat(SubSeq(m, 1, Len(m) - 1)) * 1000 + m[Len(m)]

\* m * s + c for 0 <= s, c <= 2^20
RECURSIVE MagMulAdd(_, _, _)
MagMulAdd(m, s, c) ==
  IF m = <<>> THEN MagOfNat(c)
  ELSE Append(MagMulAdd(SubSeq(m, 1, Len(m) - 1), s, (m[Len(m)] * s + c) \div 1000),
              (m[Len(m)] * s + c) % 1000)

\* divmod(m, d) for 0 < d <= 2^20, digits i.. of m still to divide, r the
\* running remainder, q the quotient digits so far
RECURSIVE MagDivFrom(_, _, _, _, _)
MagDivFrom(m, d, i, r, q) ==
  IF i > Len(m) THEN [q |-> q, r |-> r]
  ELSE MagDivFrom(m, d, i + 1, (r * 1000 + m[i]) % d,
                  IF q = <<>> /\ (r * 1000 + m[i]) \div d = 0 THEN <<>>
                  ELSE Append(q, (r * 1000 + m[i]) \div d))

MagDivMod(m, d) == MagDivFrom(m, d, 1, 0, <<>>)

\* int.bit_length(), ten bits a step
RECURSIVE BitLen(_)
BitLen(m) ==
  IF m = <<>> THEN 0
  ELSE IF Len(m) = 1 /\ m[1] < 1024 THEN CHOOSE k \in 1..10 : Pow2(k - 1) <= m[1] /\ m[1] < Pow2(k)
  ELSE 10 + BitLen(MagDivMod(m, 1024).q)

\* m << k
RECURSIVE MagShl(_, _)
MagShl(m, k) ==
  IF k = 0 THEN m
  ELSE IF k > 20 THEN MagShl(MagMulAdd(m, Pow2(20), 0), k - 20)
  ELSE MagMulAdd(m, Pow2(k), 0)

\* m >> k, and whether a one bit was shifted out
RECURSIVE MagShrSticky(_, _, _)
MagShrSticky(m, k, sticky) ==
  IF k = 0 THEN [q |-> m, sticky |-> sticky]
  ELSE IF k > 20
  THEN MagShrSticky(MagDivMod(m, Pow2(20)).q, k - 20, sticky \/ MagDivMod(m, Pow2(20)).r # 0)
  ELSE [q |-> MagDivMod(m, Pow2(k)).q, sticky |-> sticky \/ MagDivMod(m, Pow2(k)).r # 0]

\* m & ((1 << k) - 1)
RECURSIVE MagLowBits(_, _)
MagLowBits(m, k) ==
  IF k = 0 \/ m = <<>> THEN <<>>
  ELSE IF k > 20
  THEN MagMulAdd(MagLowBits(MagDivMod(m, Pow2(20)).q, k - 20), Pow2(20), MagDivMod(m, Pow2(20)).r)
  ELSE MagOfNat(MagDivMod(m, Pow2(k)).r)

MagOdd(m) == m # <<>> /\ m[Len(m)] % 2 = 1

\* m / 2^k rounded to the nearest integer, ties to even (k >= 1)
RoundShift(m, k) ==
  LET s == MagShrSticky(m, k - 1, FALSE)
      h == MagDivMod(s.q, 2)
  IN  IF h.r = 1 /\ (s.sticky \/ MagOdd(h.q)) THEN MagMulAdd(h.q, 1, 1) ELSE h.q

Long(neg, mag) == [neg |-> neg /\ mag # <<>>, mag |-> mag]

(***************************************************************************)
(* Python float (IEEE-754 binary64) on the values the epoch conversions    *)
(* produce: the magnitude m * 2^e with m below 2^53; the sign is carried   *)
(* by the caller, every operation used here being symmetric in it.         *)
(***************************************************************************)

Float(m, e) == [m |-> m, e |-> e]

\* a mantissa that rounding carried up to 2^53
Renorm(m, e) == IF BitLen(m) > 53 THEN Float(MagDivMod(m, 2).q, e + 1) ELSE Float(m, e)

\* the float nearest to p * 2^e, ties to even
RoundTo53(p, e) ==
  IF BitLen(p) <= 53 THEN Float(p, e)
  ELSE Renorm(RoundShift(p, BitLen(p) - 53), e + (BitLen(p) - 53))

\* the integer nearest to (qr.q + qr.r / d), ties to even
RoundQuotient(qr, d) ==
  IF 2 * qr.r > d \/ (2 * qr.r = d /\ MagOdd(qr.q)) THEN MagMulAdd(qr.q, 1, 1) ELSE qr.q

\* n / 1000 correctly rounded, the quotient taken at scale 2^k or 2^(k-1),
\* whichever leaves it 53 bits (n << k has 63 bits)
FloatDiv1000At(n, k) ==
  IF BitLen(MagDivMod(MagShl(n, k), 1000).q) > 53
  THEN Renorm(RoundQuotient(MagDivMod(MagShl(n, k - 1), 1000), 1000), 1 - k)
  ELSE Renorm(RoundQuotient(MagDivMod(MagShl(n, k), 1000), 1000), 0 - k)

\* n / 1000.0 for an int magnitude n below 2^53
FloatDiv1000(n) == IF n = <<>> THEN Float(<<>>, 0) ELSE FloatDiv1000At(n, 63 - BitLen(n))

\* f * c for an int 0 < c <= 2^20
FloatMul(f, c) == RoundTo53(MagMulAdd(f.m, c, 0), f.e)

\* int(f), and the integer part of modf(f)
FloatTrunc(f) == IF f.e >= 0 THEN MagShl(f.m, f.e) ELSE MagShrSticky(f.m, 0 - f.e, FALSE).q

\* the fractional part of modf(f)
FloatFrac(f) == IF f.e >= 0 THEN Float(<<>>, 0) ELSE Float(MagLowBits(f.m, 0 - f.e), f.e)

\* f rounded to an integer, ties to even
FloatRoundHalfEven(f) == IF f.e >= 0 THEN MagShl(f.m, f.e) ELSE RoundShift(f.m, 0 - f.e)

(***************************************************************************)
(* The proleptic Gregorian calendar of datetime: days are counted from     *)
(* 1970-01-01.                                                             *)
(***************************************************************************)

MINYEAR == 1
MAXYEAR == 9999

IsLeap(year) == year % 4 = 0 /\ (year % 100 # 0 \/ year % 400 = 0)

DaysInMonth(year, month) ==
  IF month = 2 THEN (IF IsLeap(year) THEN 29 ELSE 28)
  ELSE IF month \in {4, 6, 9, 11} THEN 30 ELSE 31

\* day of the year counted from March 1
DayOfMarchYear(month, day) ==
  (153 * (IF month > 2 THEN month - 3 ELSE month + 9) + 2) \div 5 + day - 1

\* yr is the year that starts on March 1
DaysFromMarchYear(yr, doy) ==
  (yr \div 400) * 146097 + (yr % 400) * 365 + (yr % 400) \div 4 - (yr % 400) \div 100 + doy - 719468

DaysFromCivil(year, month, day) ==
  DaysFromMarchYear(IF month <= 2 THEN year - 1 ELSE year, DayOfMarchYear(month, day))

CivilOfMonth(yr, mp, day) ==
  [year |-> IF mp < 10 THEN yr ELSE yr + 1, month |-> IF mp < 10 THEN mp + 3 ELSE mp - 9,
   day |-> day]

CivilOfDayOfYear(yr, doy) ==
  CivilOfMonth(yr, (5 * doy + 2) \div 153, doy - (153 * ((5 * doy + 2) \div 153) + 2) \div 5 + 1)

CivilOfYearOfEra(era, doe, yoe) ==
  CivilOfDayOfYear(era * 400 + yoe, doe - (365 * yoe + yoe \div 4 - yoe \div 100))

CivilOfDayOfEra(era, doe) ==
  CivilOfYearOfEra(era, doe, (doe - doe \div 1460 + doe \div 36524 - doe \div 146096) \div 365)

CivilFromDays(days) ==
  CivilOfDayOfEra((days + 719468) \div 146097, (days + 719468) % 146097)

(***************************************************************************)
(* BitDTEpoch                                                              *)
(***************************************************************************)

MODE_AUTO == 0
MODE_BASE36 == 36
MODE_FULL_BITDT == -1

BASE36_CHARS ==
  <<"0","1","2","3","4","5","6","7","8","9","A","B","C","D","E","F","G","H","I","J",
    "K","L","M","N","O","P","Q","R","S","T","U","V","W","X","Y","Z">>

LowerCase ==
  <<"a","b","c","d","e","f","g","h","i","j","k","l","m","n","o","p","q","r","s","t",
    "u","v","w","x","y","z">>

\* c.upper() of an ASCII character
Upper(c) == IF In(c, LowerCase) THEN CharAt(BASE36_CHARS, 10 + Find(LowerCase, c)) ELSE c

MinusOne == Long(TRUE, <<1>>)

\* the value of the i-th character of s as a digit, -1 for none
DigitOf(s, i) == Find(BASE36_CHARS, Upper(s[i]))

IsDigitOf(s, i, base) == DigitOf(s, i) # -1 /\ DigitOf(s, i) < base

\* the value of the digits first..i of s in int(s, base), three digits a
\* step while three are left; ok is FALSE when a character is no digit of the
\* base
RECURSIVE ParseDigits(_, _, _, _)
ParseDigits(s, base, first, i) ==
  IF i < first THEN [ok |-> TRUE, mag |-> <<>>]
  ELSE IF i - first >= 2
  THEN LET prev == ParseDigits(s, base, first, i - 3)
       IN  IF /\ IsDigitOf(s, i - 2, base) /\ IsDigitOf(s, i - 1, base)
              /\ IsDigitOf(s, i, base) /\ prev.ok
           THEN [ok |-> TRUE,
                 mag |-> MagMulAdd(prev.mag, base * base * base,
                                   (DigitOf(s, i - 2) * base + DigitOf(s, i - 1)) * base
                                     + DigitOf(s, i))]
           ELSE [ok |-> FALSE, mag |-> <<>>]
  ELSE LET prev == ParseDigits(s, base, first, i - 1)
       IN  IF IsDigitOf(s, i, base) /\ prev.ok
           THEN [ok |-> TRUE, mag |-> MagMulAdd(prev.mag, base, DigitOf(s, i))]
           ELSE [ok |-> FALSE, mag |-> <<>>]

\* the 0b / 0o / 0x prefix int accepts for base 2 / 8 / 16
HasBasePrefix(s, base) ==
  /\ Len(s) >= 2
  /\ s[1] = "0"
  /\ \/ base = 2 /\ Upper(s[2]) = "B"
     \/ base = 8 /\ Upper(s[2]) = "O"
     \/ base = 16 /\ Upper(s[2]) = "X"

\* int(s, base) of an unsigned text
ParseUnsigned(s, base) ==
  IF HasBasePrefix(s, base)
  THEN (IF Len(s) = 2 THEN [ok |-> FALSE, mag |-> <<>>] ELSE ParseDigits(s, base, 3, Len(s)))
  ELSE IF s = <<>> THEN [ok |-> FALSE, mag |-> <<>>]
  ELSE ParseDigits(s, base, 1, Len(s))

\* int(s, base) for a text without blanks and underscores; ok is FALSE for
\* ValueError
IntOfBase(s, base) ==
  IF s # <<>> /\ s[1] \in {"+", "-"}
  THEN [ok |-> ParseUnsigned(Slice(s, 1, Len(s)), base).ok,
        val |-> Long(s[1] = "-", ParseUnsigned(Slice(s, 1, Len(s)), base).mag)]
  ELSE [ok |-> ParseUnsigned(s, base).ok, val |-> Long(FALSE, ParseUnsigned(s, base).mag)]

\* the loop of lines 832-834 and the reversal, two digits a step
RECURSIVE EncodeDigits(_, _)
EncodeDigits(num, base) ==
  IF num = <<>> THEN <<>>
  ELSE IF MagDivMod(num, base).q = <<>> THEN <<CharAt(BASE36_CHARS, MagDivMod(num, base).r)>>
  ELSE EncodeDigits(MagDivMod(num, base * base).q, base)
         \o <<CharAt(BASE36_CHARS, MagDivMod(MagDivMod(num, base).q, base).r),
              CharAt(BASE36_CHARS, MagDivMod(num, base).r)>>

\* the numeral without its sign
_encode_base_unsigned(num, base) ==
  IF num.mag = <<>> THEN <<"0">> ELSE EncodeDigits(num.mag, base)

_encode_base(num, base) ==
  IF num.mag = <<>> THEN <<"0">>
  ELSE (IF num.neg THEN <<"-">> ELSE <<>>) \o EncodeDigits(num.mag, base)

\* the offset in seconds of the timezone object returned
_parse_zone_offset_to_tz(tz_str) ==
  IF tz_str = NoneStr \/ tz_str = <<>> \/ tz_str = <<"U", "T", "C">> THEN 0
  ELSE IF tz_str = <<"+">> \/ tz_str = <<"-">> THEN 0
  ELSE IF ~(tz_str[1] \in {"+", "-"}) THEN 0
  ELSE LET content == Slice(tz_str, 1, Len(tz_str))
           hours == IF Len(content) = 2 THEN PyInt(content) ELSE PyInt(Slice(content, 0, 2))
           minutes == IF Len(content) = 4 THEN PyInt(Slice(content, 2, 4))
                      ELSE IF Len(content) = 5 THEN PyInt(Slice(content, 3, 5))
                      ELSE [ok |-> TRUE, val |-> 0]
           total_seconds == (IF tz_str[1] = "+" THEN 1 ELSE -1)
                              * (hours.val * 3600 + minutes.val * 60)
       IN  IF ~(Len(content) \in {2, 4} \/ (Len(content) = 5 /\ content[3] = ":")) THEN 0
           ELSE IF ~hours.ok \/ ~minutes.ok THEN 0
           ELSE IF Abs(total_seconds) >= 86400 THEN 0
           ELSE total_seconds

\* the datetime constructor accepts the fields (it raises ValueError otherwise)
DatetimeValid(year, month, day, hour, minute, second, microsecond) ==
  /\ MINYEAR <= year /\ year <= MAXYEAR
  /\ 1 <= month /\ month <= 12
  /\ 1 <= day /\ day <= DaysInMonth(year, month)
  /\ 0 <= hour /\ hour <= 23
  /\ 0 <= minute /\ minute <= 59
  /\ 0 <= second /\ second <= 59
  /\ 0 <= microsecond /\ microsecond <= 999999

\* int(zdt.timestamp() * 1000) for an instant of m milliseconds from the
\* epoch (on either side): timestamp() is m / 1000 as a float
TimestampMillis(m) == FloatTrunc(FloatMul(FloatDiv1000(m), 1000))

\* the milliseconds from the epoch to day d (from 1970-01-01), second r of
\* that day and millisecond ms, 0 <= r < 86400
MillisOfDay(d, r, ms) ==
  IF d >= 0
  THEN Long(FALSE, MagMulAdd(MagMulAdd(MagOfNat(d), 86400, r), 1000, ms))
  ELSE Long(TRUE, MagMulAdd(MagMulAdd(MagOfNat(-d - 1), 86400,
                                      (86400000 - (r * 1000 + ms)) \div 1000),
                            1000, (86400000 - (r * 1000 + ms)) % 1000))

EpochOfMillis(m) == Long(m.neg, TimestampMillis(m.mag))

\* int(datetime(..., tzinfo=tz_offset).timestamp() * 1000)
EpochOfDatetime(year, month, day, hour, minute, second, millisecond, tz_offset) ==
  EpochOfMillis(MillisOfDay(DaysFromCivil(year, month, day)
                              + (hour * 3600 + minute * 60 + second - tz_offset) \div 86400,
                            (hour * 3600 + minute * 60 + second - tz_offset) % 86400,
                            millisecond))

Min(a, b) == IF a <= b THEN a ELSE b

\* lines 732-760: the datetime, the day clamped to the month, January 1
FromFullFields(abs_year, tz_offset, month, day, hour, minute, second, millisecond) ==
  IF DatetimeValid(abs_year, month, day, hour, minute, second, millisecond * 1000)
  THEN EpochOfDatetime(abs_year, month, day, hour, minute, second, millisecond, tz_offset)
  ELSE IF /\ 1 <= month /\ month <= 12
          /\ DatetimeValid(abs_year, month, Min(day, DaysInMonth(abs_year, month)),
                           hour, minute, second, millisecond * 1000)
  THEN EpochOfDatetime(abs_year, month, Min(day, DaysInMonth(abs_year, month)),
                       hour, minute, second, millisecond, tz_offset)
  ELSE IF DatetimeValid(abs_year, 1, 1, hour, minute, second, millisecond * 1000)
  THEN EpochOfDatetime(abs_year, 1, 1, hour, minute, second, millisecond, tz_offset)
  ELSE MinusOne

\* lines 705-730 on the decoded value; current_year is the clock's year
FromFullDecoded(dt, current_year) ==
  IF is_empty(dt) THEN MinusOne
  ELSE FromFullFields(
         to_absolute_year(IF get_year(dt) = -1 THEN from_absolute_year(current_year)
                          ELSE get_year(dt)),
         IF get_timezone(dt) = NoneStr THEN 0 ELSE _parse_zone_offset_to_tz(get_timezone(dt)),
         IF get_month(dt) # -1 THEN get_month(dt) + 1 ELSE 1,
         IF get_day(dt) # -1 THEN get_day(dt) ELSE 1,
         IF get_hour(dt) # -1 THEN get_hour(dt) ELSE 0,
         IF get_minute(dt) # -1 THEN get_minute(dt) ELSE 0,
         IF get_second(dt) # -1 THEN get_second(dt) ELSE 0,
         IF get_millis(dt) # -1 THEN get_millis(dt) ELSE 0)

_from_full_bit_dt(bitdt, current_year) == FromFullDecoded(decode(bitdt), current_year)

\* the character classes of the upper-cased text: all symbols in 0-9A-F,
\* some symbol in W..Z, some symbol in G..V
\* _guess_most_likely_base without the hexadecimal case
_guess_most_likely_base_no_hex(encoded) ==
  IF \E i \in 1..Len(encoded) : Find(BASE36_CHARS, Upper(encoded[i])) \in 32..35 THEN 36
  ELSE IF \E i \in 1..Len(encoded) : Find(BASE36_CHARS, Upper(encoded[i])) \in 16..31 THEN 32
  ELSE 36

_guess_most_likely_base(encoded) ==
  IF \A i \in 1..Len(encoded) : Find(BASE36_CHARS, Upper(encoded[i])) \in 0..15 THEN 16
  ELSE IF \E i \in 1..Len(encoded) : Find(BASE36_CHARS, Upper(encoded[i])) \in 32..35 THEN 36
  ELSE IF \E i \in 1..Len(encoded) : Find(BASE36_CHARS, Upper(encoded[i])) \in 16..31 THEN 32
  ELSE 36

\* the length test with its lower limit off by one
_is_base_encoded_over6(s) ==
  IF Len(s) <= 6 \/ Len(s) > 12 THEN FALSE
  ELSE \A i \in 1..Len(s) : In(Upper(s[i]), BASE36_CHARS)

_is_base_encoded(s) ==
  IF Len(s) < 6 \/ Len(s) > 12 THEN FALSE
  ELSE \A i \in 1..Len(s) : In(Upper(s[i]), BASE36_CHARS)

\* the loop of lines 774-779 from the i-th base on, then line 781
RECURSIVE DecodeBaseFrom(_, _, _, _)
DecodeBaseFrom(encoded, likely_base, i, current_year) ==
  IF i > 4 THEN _from_full_bit_dt(encoded, current_year)
  ELSE IF <<36, 32, 16, 10>>[i] = likely_base
  THEN DecodeBaseFrom(encoded, likely_base, i + 1, current_year)
  ELSE IF IntOfBase(encoded, <<36, 32, 16, 10>>[i]).ok
  THEN IntOfBase(encoded, <<36, 32, 16, 10>>[i]).val
  ELSE DecodeBaseFrom(encoded, likely_base, i + 1, current_year)

DecodeBaseLikely(encoded, likely_base, current_year) ==
  IF IntOfBase(encoded, likely_base).ok THEN IntOfBase(encoded, likely_base).val
  ELSE DecodeBaseFrom(encoded, likely_base, 1, current_year)

_decode_base_auto(encoded, current_year) ==
  DecodeBaseLikely(encoded, _guess_most_likely_base(encoded), current_year)

\* the full decode alone, without the base detection of lines 667-668
FromBitDtFullOnly(bitdt, full_result, current_year) == full_result

\* lines 660-670
FromBitDtDetect(bitdt, full_result, current_year) ==
  IF full_result # MinusOne THEN full_result
  ELSE IF _is_base_encoded(bitdt) THEN _decode_base_auto(bitdt, current_year)
  ELSE MinusOne

\* base is None (NoneInt) or Some(b); current_year is the clock's year
from_bit_dt(bitdt, base, current_year) ==
  IF bitdt = NoneStr \/ bitdt = <<>> THEN MinusOne
  ELSE IF base # NoneInt /\ 2 <= base[1] /\ base[1] <= 36
  THEN (IF IntOfBase(bitdt, base[1]).ok THEN IntOfBase(bitdt, base[1]).val ELSE MinusOne)
  ELSE FromBitDtDetect(bitdt, _from_full_bit_dt(bitdt, current_year), current_year)

\* datetime.fromtimestamp(epoch_millis / 1000.0, tz=utc) as the whole seconds
\* and microseconds the float timestamp is split into (modf, then the
\* fraction times 10^6 rounded half to even), both taken on the magnitude
TimestampSeconds(mag) == FloatTrunc(FloatDiv1000(mag))

TimestampMicros(mag) ==
  MagToNat(FloatRoundHalfEven(FloatMul(FloatFrac(FloatDiv1000(mag)), 1000000)))

\* day, second of the day and microsecond of the instant that lies s seconds
\* and us microseconds (0 <= us <= 10^6) from the epoch, on the side neg names
UtcOfParts(neg, s, us) ==
  IF ~neg
  THEN [day |-> MagToNat(MagDivMod(s, 86400).q)
                  + (MagDivMod(s, 86400).r + us \div 1000000) \div 86400,
        second |-> (MagDivMod(s, 86400).r + us \div 1000000) % 86400,
        microsecond |-> us % 1000000]
  ELSE [day |-> (0 - MagToNat(MagDivMod(s, 86400).q))
                  + (0 - MagDivMod(s, 86400).r - (IF us > 0 THEN 1 ELSE 0)) \div 86400,
        second |-> (0 - MagDivMod(s, 86400).r - (IF us > 0 THEN 1 ELSE 0)) % 86400,
        microsecond |-> (1000000 - us) % 1000000]

UtcOfEpoch(epoch_millis) ==
  UtcOfParts(epoch_millis.neg, TimestampSeconds(epoch_millis.mag),
             TimestampMicros(epoch_millis.mag))

\* lines 690-699 on the local date and time
FullOfCivil(civil, second, microsecond, timezone) ==
  IF civil.year < MINYEAR \/ civil.year > MAXYEAR THEN ValueError
  ELSE encode(from_primitives(from_absolute_year(civil.year), civil.month - 1, civil.day,
                              second \div 3600, (second % 3600) \div 60, second % 60,
                              microsecond \div 1000, timezone))

\* lines 685-688: the UTC date-time moved to the offset
FullOfUtc(utc, offset, timezone) ==
  IF CivilFromDays(utc.day).year < MINYEAR \/ CivilFromDays(utc.day).year > MAXYEAR
  THEN ValueError
  ELSE FullOfCivil(CivilFromDays(utc.day + (utc.second + offset) \div 86400),
                   (utc.second + offset) % 86400, utc.microsecond, timezone)

_to_full_bit_dt(epoch_millis, timezone) ==
  FullOfUtc(UtcOfEpoch(epoch_millis),
            IF timezone # NoneStr /\ timezone # <<>> /\ timezone # <<"U", "T", "C">>
            THEN _parse_zone_offset_to_tz(timezone) ELSE 0,
            timezone)

_to_smart_bit_dt(epoch_millis, timezone) ==
  IF timezone \in {NoneStr, <<"U", "T", "C">>, <<"+", "0", "0">>, <<"Z">>,
                   <<"+", "0", "0", "0", "0">>}
  THEN _encode_base(epoch_millis, MODE_BASE36)
  ELSE _to_full_bit_dt(epoch_millis, timezone)

\* an exception of the conversion gives the text of the empty value
EmptyOnError(t) == IF t = ValueError THEN encode(create_empty) ELSE t

to_bit_dt(epoch_millis, timezone, base) ==
  IF base = MODE_FULL_BITDT THEN EmptyOnError(_to_full_bit_dt(epoch_millis, timezone))
  ELSE IF base = MODE_AUTO THEN EmptyOnError(_to_smart_bit_dt(epoch_millis, timezone))
  ELSE IF 2 <= base /\ base <= 36 THEN _encode_base(epoch_millis, base)
  ELSE EmptyOnError(_to_smart_bit_dt(epoch_millis, timezone))

(***************************************************************************)
(* Epoch numerals at an explicit base: to_bit_dt(n, None, b), then         *)
(* from_bit_dt(text, b).                                                   *)
(***************************************************************************)

\* the year the clock shows when a time-only text is decoded
ClockYears == {1970, 2026}

EpochMagnitudes ==
  {<<>>, <<1>>, <<35>>, <<36>>, <<1, 0>>, <<60, 466, 176>>, <<1, 718, 323, 456, 789>>,
   <<9, 7, 199, 254, 740, 991>>}

Bases == 2..36

BaseInit ==
  /\ pc = "start"
  /\ \E neg \in BOOLEAN, mag \in EpochMagnitudes, base \in Bases :
       args = [n |-> Long(neg, mag), base |-> base]
  /\ x = Unset /\ text = Unset /\ y = Unset /\ text2 = Unset /\ z = Unset
  /\ result = Unset

ToBitDtBase ==
  /\ pc = "start"
  /\ text' = to_bit_dt(args.n, NoneStr, args.base)
  /\ pc' = "encoded"
  /\ UNCHANGED <<args, x, y, text2, z, result>>

FromBitDtBase ==
  /\ pc = "encoded"
  /\ \E current_year \in ClockYears : result' = from_bit_dt(text, Some(args.base), current_year)
  /\ pc' = "decoded"
  /\ UNCHANGED <<args, x, text, y, text2, z>>

BaseNext == ToBitDtBase \/ FromBitDtBase

SpecBase == BaseInit /\ [][BaseNext]_vars

\* C6: from_bit_dt(to_bit_dt(n, None, b), b) = n for every int n and every
\* base b in 2..36; the numeral is over 0-9A-Z, is "0" for zero and starts
\* with '-' exactly for negative n.
C6_BaseRoundTrip ==
  (pc = "decoded")
    => /\ result = args.n
       /\ (args.n.mag = <<>>) = (text = <<"0">>)
       /\ args.n.neg = (text[1] = "-")
       /\ \A i \in 1..Len(text) : In(text[i], BASE36_CHARS) \/ (i = 1 /\ text[i] = "-")

C6_Witness ==
  /\ pc = "decoded"
  /\ args.n = Long(TRUE, <<1, 718, 323, 456, 789>>)
  /\ args.base = 36
  /\ text = <<"-", "L", "X", "D", "X", "F", "4", "T", "1">>
  /\ result = args.n

(***************************************************************************)
(* The default mode: to_bit_dt(n), then from_bit_dt(text).                 *)
(***************************************************************************)

AutoMagnitudes ==
  {<<>>, <<1>>, <<60, 466, 175>>, <<60, 466, 176>>, <<60, 466, 211>>}
    \cup {<<a, b, c, d, e>> : a \in {1, 2}, b \in {0, 718}, c \in {0, 323}, d \in {0, 456},
                              e \in {0, 789, 999}}

AutoInit ==
  /\ pc = "start"
  /\ \E mag \in AutoMagnitudes : args = [n |-> Long(FALSE, mag)]
  /\ x = Unset /\ text = Unset /\ y = Unset /\ text2 = Unset /\ z = Unset
  /\ result = Unset

ToBitDtAuto ==
  /\ pc = "start"
  /\ text' = to_bit_dt(args.n, NoneStr, MODE_AUTO)
  /\ pc' = "encoded"
  /\ UNCHANGED <<args, x, y, text2, z, result>>

FromBitDtText ==
  /\ pc = "encoded"
  /\ \E current_year \in ClockYears : result' = from_bit_dt(text, NoneInt, current_year)
  /\ pc' = "decoded"
  /\ UNCHANGED <<args, x, text, y, text2, z>>

AutoNext == ToBitDtAuto \/ FromBitDtText

SpecAuto == AutoInit /\ [][AutoNext]_vars

\* t has a symbol in W..Z
HasBase36Symbol(t) == \E i \in 1..Len(t) : t[i] \in {"W", "X", "Y", "Z"}

\* C7 as stated: from_bit_dt(to_bit_dt(n)) = n for every non-negative n.
C7_AutoRoundTripAll == (pc = "decoded") => result = args.n

\* C7, amended: from_bit_dt(to_bit_dt(n)) = n for every non-negative n whose
\* base-36 numeral has 6 to 12 symbols, at least one of them in W..Z, and is
\* not a text that BitDT.decode accepts.
C7_AutoRoundTrip ==
  (pc = "decoded" /\ Len(text) \in 6..12 /\ HasBase36Symbol(text) /\ is_empty(decode(text)))
    => result = args.n

C7_Witness ==
  /\ pc = "decoded"
  /\ args.n = Long(FALSE, <<60, 466, 211>>)
  /\ text = <<"1", "0", "0", "0", "0", "Z">>
  /\ is_empty(decode(text))
  /\ result = args.n

(***************************************************************************)
(* Numerals typed symbol by symbol and decoded with no explicit base.      *)
(***************************************************************************)

MaxNumeralLen == 7

NumeralChars == {"0", "B", "W"}

NumeralInit ==
  /\ pc = "typing"
  /\ text = <<>>
  /\ args = Unset /\ x = Unset /\ y = Unset /\ text2 = Unset /\ z = Unset
  /\ result = Unset

TypeNumeralChar ==
  /\ pc = "typing"
  /\ Len(text) < MaxNumeralLen
  /\ \E c \in NumeralChars : text' = Append(text, c)
  /\ UNCHANGED <<pc, args, x, y, text2, z, result>>

FromBitDtTyped ==
  /\ pc = "typing"
  /\ \E current_year \in ClockYears : result' = from_bit_dt(text, NoneInt, current_year)
  /\ pc' = "decoded"
  /\ UNCHANGED <<args, x, text, y, text2, z>>

NumeralNext == TypeNumeralChar \/ FromBitDtTyped

SpecNumeral == NumeralInit /\ [][NumeralNext]_vars

\* the value of t read as a base-36 numeral
RECURSIVE Base36Value(_)
Base36Value(t) ==
  IF t = <<>> THEN <<>>
  ELSE MagMulAdd(Base36Value(SubSeq(t, 1, Len(t) - 1)), 36, Find(BASE36_CHARS, t[Len(t)]))

\* C8 as stated: every base-36 numeral of length 6..12 with a symbol in W..Z
\* decodes, with no explicit base, to its base-36 value.
C8_DetectBase36All ==
  (pc = "decoded" /\ Len(text) \in 6..12 /\ HasBase36Symbol(text))
    => result = Long(FALSE, Base36Value(text))

\* C8, amended: every base-36 numeral of length 6..12 with a symbol in W..Z
\* that is not a text BitDT.decode accepts decodes, with no explicit base, to
\* its base-36 value.
C8_DetectBase36 ==
  (pc = "decoded" /\ Len(text) \in 6..12 /\ HasBase36Symbol(text) /\ is_empty(decode(text)))
    => result = Long(FALSE, Base36Value(text))

C8_Witness ==
  /\ pc = "decoded"
  /\ text = <<"B", "W", "0", "B", "0", "W">>
  /\ is_empty(decode(text))
  /\ result = Long(FALSE, <<718, 889, 936>>)

(***************************************************************************)
(* The full mode: to_bit_dt(n, tz, MODE_FULL_BITDT), then from_bit_dt.     *)
(***************************************************************************)

\* days from 1970-01-01: 0001-01-01, 1969-12-31, 1970-01-01, 1970-01-02,
\* 2024-06-14, 9999-12-31
FullDays == {-719162, -1, 0, 1, 19888, 2932896}

\* milliseconds of the day: midnight, 1 ms, 1.001 s, 01:00, 12:34:56.789, the
\* last millisecond
FullMillis == {0, 1, 1001, 3600000, 45296789, 86399999}

FullTimezones ==
  {NoneStr, <<"+","0","5","3","0">>, <<"-","0","8">>, <<"+","1","2","4","5">>}

FullInit ==
  /\ pc = "start"
  /\ \E day \in FullDays, ms \in FullMillis, timezone \in FullTimezones :
       args = [n |-> MillisOfDay(day, ms \div 1000, ms % 1000), timezone |-> timezone,
               day |-> day, ms |-> ms]
  /\ x = Unset /\ text = Unset /\ y = Unset /\ text2 = Unset /\ z = Unset
  /\ result = Unset

ToBitDtFull ==
  /\ pc = "start"
  /\ text' = to_bit_dt(args.n, args.timezone, MODE_FULL_BITDT)
  /\ pc' = "encoded"
  /\ UNCHANGED <<args, x, y, text2, z, result>>

FullNext == ToBitDtFull \/ FromBitDtText

SpecFull == FullInit /\ [][FullNext]_vars

\* the calendar year of the instant in its timezone
LocalYear(a) ==
  CivilFromDays(a.day + (a.ms \div 1000 + _parse_zone_offset_to_tz(a.timezone)) \div 86400).year

\* C9: from_bit_dt(to_bit_dt(n, tz, MODE_FULL_BITDT)) = n for every n whose
\* local date-time lies in the years 1..9999 and every timezone label that is
\* an offset of a whole multiple of 15 minutes.
C9_FullRoundTrip ==
  (pc = "decoded" /\ LocalYear(args) \in MINYEAR..MAXYEAR) => result = args.n

(***************************************************************************)
(* Epoch decode of date-time text: a value built from components, encoded, *)
(* and handed to from_bit_dt with no explicit base.                        *)
(***************************************************************************)

\* relative years: 0, absolute 1, 1970, 9999, 10000, and the largest
EpochYears == {0, 50001, 51970, 59999, 60000, 226980}
EpochMonths == {0, 1}
EpochDays == {0, 1, 30, 31}
EpochHours == {0, 23}
EpochMinutes == {0, 59}
EpochSeconds == {0}
EpochMillis == {0, 999}
EpochTimezones == {NoneStr, <<"+","0","5","3","0">>, <<"-","0","8">>}

EpochTextInit ==
  /\ pc = "start"
  /\ \E year \in EpochYears, month \in EpochMonths, day \in EpochDays, hour \in EpochHours,
        minute \in EpochMinutes, second \in EpochSeconds, millis \in EpochMillis,
        timezone \in EpochTimezones :
       args = [year |-> year, month |-> month, day |-> day, hour |-> hour,
               minute |-> minute, second |-> second, millis |-> millis,
               timezone |-> timezone]
  /\ x = Unset /\ text = Unset /\ y = Unset /\ text2 = Unset /\ z = Unset
  /\ result = Unset

EpochTextNext == Construct \/ Encode \/ FromBitDtText

SpecEpochText == EpochTextInit /\ [][EpochTextNext]_vars

\* C10: from_bit_dt(text) with no explicit base returns -1 for a date-time
\* text only when BitDT.decode(text) is Empty; every text that decodes to a
\* non-empty value (any relative year 0..226980, any precision) gives an epoch.
C10_FailsOnlyOnUnparsable ==
  (pc = "decoded" /\ ~is_empty(decode(text))) => result # MinusOne

(***************************************************************************)
(* Timezone normalisation: x = from_primitives(components, timezone) for a *)
(* timezone string sign+HH, sign+HHMM or sign+HH:MM, then x.encode() and   *)
(* x.get_timezone().                                                       *)
(***************************************************************************)

ZoneSigns == {"+", "-"}

\* hour digits of the timezone string
ZoneHours ==
  {<<"0","0">>, <<"0","5">>, <<"1","2">>, <<"1","4">>, <<"2","3">>, <<"2","4">>,
   <<"9","9">>}

\* minute digits of the timezone string
ZoneMinutes ==
  {<<"0","0">>, <<"0","7">>, <<"1","4">>, <<"1","5">>, <<"3","0">>, <<"4","5">>,
   <<"5","9">>, <<"6","0">>, <<"9","9">>}

\* sign+HH, sign+HHMM and sign+HH:MM
ZoneStrings ==
  {<<s>> \o h : s \in ZoneSigns, h \in ZoneHours}
  \cup {<<s>> \o h \o m : s \in ZoneSigns, h \in ZoneHours, m \in ZoneMinutes}
  \cup {<<s>> \o h \o <<":">> \o m : s \in ZoneSigns, h \in ZoneHours, m \in ZoneMinutes}

\* the components the timezone is attached to: none, a date, a time
ZoneComponents ==
  {<<0, 0, 0, 0, 0, 0, 0>>, <<52024, 5, 15, 0, 0, 0, 0>>, <<0, 0, 0, 13, 30, 0, 1>>}

ZoneInit ==
  /\ pc = "start"
  /\ \E c \in ZoneComponents, timezone \in ZoneStrings :
       args = [year |-> c[1], month |-> c[2], day |-> c[3], hour |-> c[4],
               minute |-> c[5], second |-> c[6], millis |-> c[7],
               timezone |-> timezone]
  /\ x = Unset /\ text = Unset /\ y = Unset /\ text2 = Unset /\ z = Unset
  /\ result = Unset

GetTimezone ==
  /\ pc = "encoded"
  /\ result' = get_timezone(x)
  /\ pc' = "rendered"
  /\ UNCHANGED <<args, x, text, y, text2, z>>

ZoneNext == Construct \/ Encode \/ GetTimezone

SpecZone == ZoneInit /\ [][ZoneNext]_vars

\* HH*60 + MM of a timezone string of one of the three forms
ZoneTotalMinutes(tz) ==
  DigitsValue(SubSeq(tz, 2, 3)) * 60
  + (IF Len(tz) = 3 THEN 0 ELSE DigitsValue(SubSeq(tz, Len(tz) - 1, Len(tz))))

\* q is t / 15 truncated toward zero with the sign of tz applied
IsTruncatedQuarter(q, tz) ==
  /\ Abs(q) * 15 <= ZoneTotalMinutes(tz)
  /\ ZoneTotalMinutes(tz) < (Abs(q) + 1) * 15
  /\ (q > 0 => tz[1] = "+")
  /\ (q < 0 => tz[1] = "-")

\* r is sign+HH (two digits) for q quarter hours with no minutes left, and
\* sign+HHMM (four digits) otherwise
IsRendered(r, q) ==
  /\ r # NoneStr
  /\ Len(r) = (IF (Abs(q) * 15) % 60 = 0 THEN 3 ELSE 5)
  /\ r[1] = (IF q > 0 THEN "+" ELSE "-")
  /\ IsDigits(SubSeq(r, 2, Len(r)))
  /\ DigitsValue(SubSeq(r, 2, 3)) = (Abs(q) * 15) \div 60
  /\ (Len(r) = 5 => DigitsValue(SubSeq(r, 4, 5)) = (Abs(q) * 15) % 60)

ZoneNormalised ==
  /\ IsTruncatedQuarter(x.timezone_offset, args.timezone)
  /\ IF x.timezone_offset = 0
     THEN result = NoneStr /\ ~In("+", text) /\ ~In("-", text)
     ELSE IsRendered(result, x.timezone_offset)

\* C11 holds when HH*60 + MM is below 100 hours
C11_NormalisedBelow100Hours ==
  (pc = "rendered" /\ ZoneTotalMinutes(args.timezone) < 6000) => ZoneNormalised

\* C11: for a value built with a timezone string sign+HH, sign+HHMM or
\* sign+HH:MM the stored offset is (HH*60+MM)/15 truncated toward zero with
\* the sign applied; get_timezone() renders it as sign+HH when no minutes
\* remain and as sign+HHMM otherwise; when the offset is 0, get_timezone()
\* returns no timezone and encode() appends no affix.
C11_TimezoneNormalised == (pc = "rendered") => ZoneNormalised

(***************************************************************************)
(* ThousandCounter: text = encode_milliseconds(millis), then               *)
(* result = decode_milliseconds(text) unless the encoder raised.           *)
(***************************************************************************)

\* how far the millis handed to the encoder reach below 0 and above 999
MaxExcess == 3

CounterInit ==
  /\ pc = "start"
  /\ args \in (-MaxExcess)..(999 + MaxExcess)
  /\ x = Unset /\ text = Unset /\ y = Unset /\ text2 = Unset /\ z = Unset
  /\ result = Unset

EncodeMillis ==
  /\ pc = "start"
  /\ text' = encode_milliseconds(args)
  /\ pc' = "encoded"
  /\ UNCHANGED <<args, x, y, text2, z, result>>

DecodeMillis ==
  /\ pc = "encoded"
  /\ text # ValueError
  /\ result' = decode_milliseconds(text)
  /\ pc' = "decoded"
  /\ UNCHANGED <<args, x, text, y, text2, z>>

CounterNext == EncodeMillis \/ DecodeMillis

SpecCounter == CounterInit /\ [][CounterNext]_vars

\* C12: for every millis in 0..999 decode_milliseconds(encode_milliseconds(
\* millis)) is millis, the code has 2 symbols and no other millis of 0..999
\* has the same code; for every millis below 0 or above 999
\* encode_milliseconds raises the validation error.
C12_CounterBijection ==
  /\ (pc \in {"encoded", "decoded"} /\ args \in 0..999)
       => /\ text # ValueError
          /\ Len(text) = 2
          /\ \A other \in 0..999 : other # args => encode_milliseconds(other) # text
  /\ (pc \in {"encoded", "decoded"} /\ args \notin 0..999) => text = ValueError
  /\ (pc = "decoded") => result = args

\* the largest millis, encoded with the last symbol of both alphabets and
\* decoded
C12_Witness ==
  /\ pc = "decoded" /\ args = 999
  /\ text = <<"z", "Z">>
  /\ result = 999

(***************************************************************************)
(* Zero-run compression: a field string typed symbol by symbol is handed   *)
(* to _compress_zeros and the result to _expand_zeros.                     *)
(***************************************************************************)

MaxFieldsLen == 9

\* the literal zero, a letter of every field alphabet and a digit of the
\* year, day and minute alphabets
FieldChars == {"0", "B", "5"}

CompressInit ==
  /\ pc = "typing"
  /\ text = <<>>
  /\ args = Unset /\ x = Unset /\ y = Unset /\ text2 = Unset /\ z = Unset
  /\ result = Unset

TypeFieldChar ==
  /\ pc = "typing"
  /\ Len(text) < MaxFieldsLen
  /\ \E c \in FieldChars : text' = Append(text, c)
  /\ UNCHANGED <<pc, args, x, y, text2, z, result>>

CompressZeros ==
  /\ pc = "typing"
  /\ text2' = _compress_zeros(text)
  /\ pc' = "compressed"
  /\ UNCHANGED <<args, x, text, y, z, result>>

ExpandZeros ==
  /\ pc = "compressed"
  /\ result' = _expand_zeros(text2)
  /\ pc' = "expanded"
  /\ UNCHANGED <<args, x, text, y, text2, z>>

CompressNext == TypeFieldChar \/ CompressZeros \/ ExpandZeros

SpecCompress == CompressInit /\ [][CompressNext]_vars

\* C13: for every string s of literal zeros and field-alphabet symbols,
\* _expand_zeros(_compress_zeros(s)) is s; a string that is one run of more
\* than 7 zeros compresses to '&' followed by the remaining literal zeros.
C13_CompressionInverse ==
  /\ (pc = "expanded") => result = text
  /\ (pc \in {"compressed", "expanded"} /\ Len(text) > 7 /\ text = Repeat("0", Len(text)))
       => text2 = <<"&">> \o Repeat("0", Len(text) - 7)

\* a symbol followed by a run of eight zeros
C13_Witness ==
  /\ pc = "expanded"
  /\ text = <<"B">> \o Repeat("0", 8)
  /\ text2 = <<"B", "&", "0">>
  /\ result = text

(***************************************************************************)
(* BitDTArray.  A Python list is an object: the heap is the sequence of    *)
(* all list objects allocated so far, a list's identity is its position in *)
(* the heap, and an array object holds the identities of its three         *)
(* columns.  list(xs) allocates; xs[i] = v stores into the object xs names, *)
(* whoever else names it.                                                  *)
(***************************************************************************)

IndexError == <<"IndexError">>

\* the outcome of a call that returns an array: the heap after the call and
\* the array object, or the exception raised
Returned(heap, self) == [raised |-> <<>>, heap |-> heap, self |-> self]

Raised(heap, exception) == [raised |-> exception, heap |-> heap, self |-> <<>>]

\* BitDTArray(packed, timezone_offsets, date_types) for three lists given by
\* their elements: each column is a fresh list(...) of the argument
BitDTArray(heap, packed, timezone_offsets, date_types) ==
  IF Len(packed) # Len(timezone_offsets) \/ Len(packed) # Len(date_types)
  THEN Raised(heap, ValueError)
  ELSE Returned(heap \o <<packed, timezone_offsets, date_types>>,
                [packed_values |-> Len(heap) + 1,
                 timezone_offsets |-> Len(heap) + 2,
                 date_types |-> Len(heap) + 3])

\* with_value that stores into the columns of self instead of copies of them
with_value_in_place(heap, self, index, dt) ==
  IF index < 0 \/ index >= Len(heap[self.packed_values])
  THEN Raised(heap, IndexError)
  ELSE LET stored == [heap EXCEPT ![self.packed_values][index + 1] = dt.packed_value,
                                  ![self.timezone_offsets][index + 1] = dt.timezone_offset,
                                  ![self.date_types][index + 1] = dt.date_type]
       IN  BitDTArray(stored, stored[self.packed_values],
                      stored[self.timezone_offsets], stored[self.date_types])

\* new_packed, new_tz and new_types are the lists Len(heap) + 1 .. + 3
with_value(heap, self, index, dt) ==
  IF index < 0 \/ index >= Len(heap[self.packed_values])
  THEN Raised(heap, IndexError)
  ELSE LET copied == heap \o <<heap[self.packed_values], heap[self.timezone_offsets],
                               heap[self.date_types]>>
           stored == [copied EXCEPT ![Len(heap) + 1][index + 1] = dt.packed_value,
                                    ![Len(heap) + 2][index + 1] = dt.timezone_offset,
                                    ![Len(heap) + 3][index + 1] = dt.date_type]
       IN  BitDTArray(stored, stored[Len(heap) + 1], stored[Len(heap) + 2],
                      stored[Len(heap) + 3])

\* BitDTArray(len(dates)) with every element then stored from dates
from_list(heap, dates) ==
  LET arr == BitDTArray(heap, [i \in 1..Len(dates) |-> EMPTY_VALUE],
                        [i \in 1..Len(dates) |-> 0], [i \in 1..Len(dates) |-> 0])
  IN  Returned([arr.heap EXCEPT
                  ![arr.self.packed_values] = [i \in 1..Len(dates) |-> dates[i].packed_value],
                  ![arr.self.timezone_offsets] = [i \in 1..Len(dates) |-> dates[i].timezone_offset],
                  ![arr.self.date_types] = [i \in 1..Len(dates) |-> dates[i].date_type]],
               arr.self)

(***************************************************************************)
(* Array pipeline: x is the heap, y the array objects made so far (y[1] is  *)
(* from_list(args)), result the last with_value call.                       *)
(***************************************************************************)

ArraySize == 2

MaxArrays == 4

\* the values stored: a date, and a time of day with a timezone
ArrayDates ==
  {from_primitives(60000, 0, 1, 0, 0, 0, 0, NoneStr),
   from_primitives(0, 0, 0, 13, 30, 0, 1, <<"+","0","5","3","0">>)}

ArrayInit ==
  /\ pc = "ready"
  /\ args \in [1..ArraySize -> ArrayDates]
  /\ x = from_list(<<>>, args).heap
  /\ y = <<from_list(<<>>, args).self>>
  /\ text = Unset /\ text2 = Unset /\ z = Unset /\ result = Unset

\* new_array = a.with_value(index, dt) for one of the arrays made so far
WithValue ==
  /\ pc = "ready"
  /\ Len(y) < MaxArrays
  /\ \E a \in 1..Len(y), index \in (-1)..ArraySize, dt \in ArrayDates :
       /\ x' = with_value(x, y[a], index, dt).heap
       /\ y' = IF with_value(x, y[a], index, dt).raised # <<>> THEN y
               ELSE Append(y, with_value(x, y[a], index, dt).self)
       /\ result' = [a |-> a, index |-> index, dt |-> dt,
                     raised |-> with_value(x, y[a], index, dt).raised]
  /\ UNCHANGED <<pc, args, text, text2, z>>

ArrayNext == WithValue

SpecArray == ArrayInit /\ [][ArrayNext]_vars

\* the three columns of array object a in heap
Columns(heap, a) ==
  <<heap[a.packed_values], heap[a.timezone_offsets], heap[a.date_types]>>

\* the triple an array holds for the value dt
Triple(dt) == <<dt.packed_value, dt.timezone_offset, dt.date_type>>

\* columns new are columns old with element index (0-based) replaced by dt
UpdatedAt(new, old, index, dt) ==
  \A c \in 1..3 :
    /\ Len(new[c]) = Len(old[c])
    /\ \A j \in 1..Len(old[c]) :
         new[c][j] = (IF j = index + 1 THEN Triple(dt)[c] ELSE old[c][j])

\* C16: a.with_value(i, dt) with a valid index returns a new array whose
\* element i is dt's (packed value, timezone offset, tag) and whose other
\* elements are those of a, and the three columns of a and of every other
\* array made so far are the same after the call as before it, in every
\* sequence of with_value calls on an array and the arrays derived from it.
C16_WithValueFrame ==
  [][ /\ \A k \in 1..Len(y) : y'[k] = y[k] /\ Columns(x', y'[k]) = Columns(x, y[k])
      /\ (result'.index \in 0..(ArraySize - 1))
           => /\ result'.raised = <<>>
              /\ Len(y') = Len(y) + 1
              /\ UpdatedAt(Columns(x', y'[Len(y')]), Columns(x, y[result'.a]),
                           result'.index, result'.dt)
    ]_vars

\* three arrays derived in a chain from the first, each replacing another
\* element by another value, while the first still holds what from_list gave
C16_Witness ==
  /\ Len(y) = 4
  /\ result.raised = <<>> /\ result.a = 3 /\ result.index = 1
  /\ Triple(result.dt) # Triple(args[2])
  /\ Columns(x, y[1]) = <<[i \in 1..ArraySize |-> args[i].packed_value],
                          [i \in 1..ArraySize |-> args[i].timezone_offset],
                          [i \in 1..ArraySize |-> args[i].date_type]>>
  /\ Columns(x, y[4])[2][2] = result.dt.timezone_offset
  /\ Columns(x, y[4]) # Columns(x, y[1])

(***************************************************************************)
(* Epoch decode of dates past the end of their month:                      *)
(* x = from_primitives(args), text = x.encode(),                           *)
(* result = BitDTEpoch.from_bit_dt(text).                                  *)
(***************************************************************************)

\* relative years: the first and the last calendar year, a century year that
\* is no leap year, the epoch's year, a leap year
ClampYears == {50001, 51900, 51970, 52024, 59999}
\* February and April
ClampMonths == {1, 3}
ClampDays == {29, 30, 31}
ClampHours == {0, 23}
ClampMinutes == {0, 59}
ClampSeconds == {0, 59}
ClampMillis == {0, 4, 999}
ClampTimezones == {NoneStr, <<"+","0","5","3","0">>, <<"-","0","8">>}

ClampInit ==
  /\ pc = "start"
  /\ args \in [year : ClampYears, month : ClampMonths, day : ClampDays,
               hour : ClampHours, minute : ClampMinutes, second : ClampSeconds,
               millis : ClampMillis, timezone : ClampTimezones]
  /\ x = Unset /\ text = Unset /\ y = Unset /\ text2 = Unset /\ z = Unset
  /\ result = Unset

ClampNext == Construct \/ Encode \/ FromBitDtText

SpecClamp == ClampInit /\ [][ClampNext]_vars

\* the components a name a day past the end of the month, in a calendar year
\* of 1..9999
PastMonthEnd(a) ==
  /\ to_absolute_year(a.year) \in MINYEAR..MAXYEAR
  /\ a.day > DaysInMonth(to_absolute_year(a.year), a.month + 1)

\* seconds from local midnight of a to the same instant's UTC time of day,
\* for an offset of q quarter hours
UtcSecondOfDay(a, q) == a.hour * 3600 + a.minute * 60 + a.second - q * 900

\* the epoch milliseconds, in exact integer arithmetic, of the last day of
\* a's month and year at a's time of day and an offset of q quarter hours
LastDayEpoch(a, q) ==
  MillisOfDay(DaysFromCivil(to_absolute_year(a.year), a.month + 1,
                            DaysInMonth(to_absolute_year(a.year), a.month + 1))
                + UtcSecondOfDay(a, q) \div 86400,
              UtcSecondOfDay(a, q) % 86400,
              a.millis)

\* C17 holds for times of day on a whole second
C17_ClampedWholeSeconds ==
  (pc = "decoded" /\ PastMonthEnd(args) /\ args.millis = 0)
    => result = LastDayEpoch(args, x.timezone_offset) /\ result # MinusOne

\* C17: when the text decodes to a date of a calendar year in 1..9999 whose
\* day exceeds the length of its month, from_bit_dt returns the epoch of the
\* last valid day of that month and year with the decoded hour, minute,
\* second, millisecond and UTC offset unchanged, and does not return -1.
C17_ClampedToLastDay ==
  (pc = "decoded" /\ PastMonthEnd(args))
    => result = LastDayEpoch(args, x.timezone_offset) /\ result # MinusOne

(***************************************************************************)
(* Decoding bodies of absent fields: a text made of a body and an affix is *)
(* handed to BitDT.decode and the value to encode.                         *)
(***************************************************************************)

\* the symbol of a run of 1..7 zeros
RunSymbols == <<"0", ".", ":", ";", "?", "!", "&">>

\* every way to write n zeros as literal zeros and run symbols
RECURSIVE ZeroRuns(_)
ZeroRuns(n) ==
  IF n = 0 THEN {<<>>}
  ELSE UNION {{<<RunSymbols[k]>> \o r : r \in ZeroRuns(n - k)} : k \in 1..n}

\* bodies of seven absent fields, and bodies whose month or second is
\* present
AbsentBodies ==
  ZeroRuns(7)
  \cup {a \o <<"B">> \o b : a \in ZeroRuns(1), b \in ZeroRuns(5)}
  \cup {a \o <<"B">> \o b : a \in ZeroRuns(5), b \in ZeroRuns(1)}

\* no affix, a sign alone, a sign and two digits, a sign and four digits
AbsentAffixes ==
  {<<>>}
  \cup {<<s>> : s \in ZoneSigns}
  \cup {<<s>> \o h : s \in ZoneSigns, h \in ZoneHours}
  \cup {<<s>> \o h \o m : s \in ZoneSigns, h \in ZoneHours, m \in ZoneMinutes}

AbsentInit ==
  /\ pc = "encoded"
  /\ \E body \in AbsentBodies, affix \in AbsentAffixes : text = body \o affix
  /\ args = Unset /\ x = Unset /\ y = Unset /\ text2 = Unset /\ z = Unset
  /\ result = Unset

AbsentNext == Decode \/ Reencode

SpecAbsent == AbsentInit /\ [][AbsentNext]_vars

\* t is seven absent field markers, written with or without run symbols,
\* followed by nothing or by a grammar-valid affix
AllAbsent(t) ==
  \E n \in 0..5 :
    /\ n <= Len(t)
    /\ n \in {0, 1, 3, 5}
    /\ n > 0 => /\ t[Len(t) - n + 1] \in {"+", "-"}
                /\ \A i \in (Len(t) - n + 2)..Len(t) : In(t[i], TIMEZONE_DIGITS)
    /\ \A i \in 1..(Len(t) - n) : In(t[i], RunSymbols)
    /\ _expand_zeros(SubSeq(t, 1, Len(t) - n)) = Repeat("0", 7)

\* C18: for every text whose body expands to seven absent field markers,
\* followed by no affix or by a grammar-valid affix, decode returns a value
\* with is_empty() true whose seven component accessors return -1 and whose
\* encode() is "&".
C18_AllAbsentIsEmpty ==
  (pc \in {"decoded", "reencoded"} /\ AllAbsent(text))
    => /\ is_empty(y)
       /\ get_year(y) = -1 /\ get_month(y) = -1 /\ get_day(y) = -1
       /\ get_hour(y) = -1 /\ get_minute(y) = -1 /\ get_second(y) = -1
       /\ get_millis(y) = -1
       /\ (pc = "reencoded" => text2 = <<"&">>)

\* seven literal zeros with a four-digit affix: the decoded Empty value
\* keeps the offset, its text is "&" all the same
C18_Witness ==
  /\ pc = "reencoded"
  /\ text = Repeat("0", 7) \o <<"+", "0", "5", "3", "0">>
  /\ AllAbsent(text)
  /\ is_empty(y) /\ y.timezone_offset = 22
  /\ text2 = <<"&">>

(***************************************************************************)
(* Framing of alphabet symbols: one symbol of one field alphabet is read   *)
(* the way decode frames a text: as the last character of a text for       *)
(* _parse_timezone, and as a body character for _expand_zeros.             *)
(***************************************************************************)

\* year, month, day, hour, minute/second, and the two ThousandCounter
\* alphabets
Alphabets == <<YEAR_CHARS, MONTHS, DAYS, HOURS, MINUTES, FIRST_CHAR, SECOND_CHAR>>

FrameInit ==
  /\ pc = "start"
  /\ \E k \in 1..Len(Alphabets) :
       \E i \in 1..Len(Alphabets[k]) : args = [alphabet |-> k, index |-> i]
  /\ x = Unset /\ text = Unset /\ y = Unset /\ text2 = Unset /\ z = Unset
  /\ result = Unset

\* the symbol, doubled so that _parse_timezone looks at it, and alone
FrameSymbol ==
  /\ pc = "start"
  /\ text' = <<Alphabets[args.alphabet][args.index]>>
  /\ result' = [timezone |-> _parse_timezone(text' \o text'),
                expanded |-> _expand_zeros(text')]
  /\ pc' = "framed"
  /\ UNCHANGED <<args, x, y, text2, z>>

FrameNext == FrameSymbol

SpecFrame == FrameInit /\ [][FrameNext]_vars

\* C19: no symbol of the year, month, day, hour, minute/second and the two
\* ThousandCounter alphabets is the absent marker '0', one of the run
\* symbols . : ; ? ! &, or a timezone sign + or -; so the decoder takes no
\* alphabet symbol for an affix and expands none.
C19_AlphabetsFramed ==
  (pc = "framed")
    => /\ text[1] # "0"
       /\ text[1] \notin {TWO_ZEROS, THREE_ZEROS, FOUR_ZEROS, FIVE_ZEROS, SIX_ZEROS,
                          SEVEN_ZEROS}
       /\ text[1] \notin {UTC_PLUS, UTC_MINUS}
       /\ result.timezone = NoneStr
       /\ result.expanded = text

\* the last symbol of the year alphabet, a digit
C19_Witness ==
  /\ pc = "framed"
  /\ args.alphabet = 1 /\ args.index = Len(YEAR_CHARS)
  /\ text = <<"9">>
  /\ result.expanded = <<"9">>

(***************************************************************************)
(* Base guessing: a numeral, a prefix followed by typed symbols, is handed *)
(* to BitDTEpoch.from_bit_dt with no explicit base.                        *)
(***************************************************************************)

MaxGuessLen == 6

\* nothing; six hexadecimal symbols of both cases that no date-time text
\* starts with; five absent markers, which the typed symbols can complete to
\* a time of day
GuessPrefixes ==
  {<<>>, <<"0","9","a","B","c","D">>, <<"0","0","0","0","0">>}

\* a hexadecimal symbol, a symbol of base 32 and up, a lower-case symbol of
\* base 36
GuessChars == {"F", "V", "z"}

GuessInit ==
  /\ pc = "typing"
  /\ args \in GuessPrefixes
  /\ text = args
  /\ x = Unset /\ y = Unset /\ text2 = Unset /\ z = Unset /\ result = Unset

TypeGuessChar ==
  /\ pc = "typing"
  /\ Len(text) - Len(args) < MaxGuessLen
  /\ \E c \in GuessChars : text' = Append(text, c)
  /\ UNCHANGED <<pc, args, x, y, z, text2, result>>

GuessNext == TypeGuessChar \/ FromBitDtTyped

SpecGuess == GuessInit /\ [][GuessNext]_vars

\* the value of t read as a numeral of the given base, upper or lower case
RECURSIVE NumeralValue(_, _)
NumeralValue(t, base) ==
  IF t = <<>> THEN <<>>
  ELSE MagMulAdd(NumeralValue(SubSeq(t, 1, Len(t) - 1), base), base,
                 Find(BASE36_CHARS, Upper(t[Len(t)])))

\* every symbol of t, in either case, is one of the first n of 0-9A-Z
SymbolsBelow(t, n) == \A i \in 1..Len(t) : Find(BASE36_CHARS, Upper(t[i])) \in 0..(n - 1)

\* base 16 for 0-9A-F only, else base 36 with a symbol of W..Z, else base 32
PriorityBase(t) ==
  IF SymbolsBelow(t, 16) THEN 16 ELSE IF ~SymbolsBelow(t, 32) THEN 36 ELSE 32

\* the full-text decode of t fails, whatever the clock says
FullDecodeFails(t) == \A current_year \in ClockYears : _from_full_bit_dt(t, current_year) = MinusOne

\* C20: for every text of length 6..12 over 0-9A-Z in either case on which
\* the full-text decode fails, from_bit_dt with no explicit base returns the
\* numeral's value in base 16 when every symbol is in 0-9A-F, otherwise in
\* base 36 when some symbol is in W..Z, otherwise in base 32; the first
\* guessed base parses the text.
C20_GuessPriority ==
  (pc = "decoded" /\ Len(text) \in 6..12 /\ SymbolsBelow(text, 36) /\ FullDecodeFails(text))
    => /\ result = Long(FALSE, NumeralValue(text, PriorityBase(text)))
       /\ IntOfBase(text, _guess_most_likely_base(text)).ok

\* a mixed-case hexadecimal numeral with one symbol of base 32
C20_Witness ==
  /\ pc = "decoded"
  /\ text = <<"0","9","a","B","c","D","V">>
  /\ FullDecodeFails(text)
  /\ PriorityBase(text) = 32
  /\ result = Long(FALSE, <<312, 848, 831>>)

(***************************************************************************)
(* Consumption of the body by decode, on the typed texts of SpecDecode.    *)
(***************************************************************************)

\* the expanded body e, from 1-based position pos on, is exactly the tokens
\* of the fields k..7: a literal zero or a token of the field's width at
\* each field position, and nothing behind the last one
RECURSIVE SevenTokens(_, _, _)
SevenTokens(e, k, pos) ==
  IF k > 7 THEN pos = Len(e) + 1
  ELSE IF pos > Len(e) THEN FALSE
  ELSE IF e[pos] = "0" THEN SevenTokens(e, k + 1, pos + 1)
  ELSE /\ pos + TokenWidth(k) - 1 <= Len(e)
       /\ SevenTokens(e, k + 1, pos + TokenWidth(k))

\* the expanded body of the text t
ExpandedBody(t) == _expand_zeros(_extract_datetime_part(t))

\* C21: whenever decode returns a non-empty value, the expanded body was
\* made of exactly the seven field tokens in order (year 1 or 3 symbols,
\* month, day, hour, minute, second 1 symbol each, millisecond 1 or 2
\* symbols): no field position was missing at the end of the body and no
\* character remained after the millisecond token.
C21_ExactConsumption ==
  (pc = "decoded" /\ text # NoneStr /\ ~is_empty(y))
    => SevenTokens(ExpandedBody(text), 1, 1)

(***************************************************************************)
(* The Empty values decode returns, on the texts of SpecAbsent.            *)
(***************************************************************************)

\* C22 holds for the packed value, and for texts without an affix
C22_EmptyPackedZero ==
  (pc \in {"decoded", "reencoded"} /\ is_empty(y))
    => /\ y.packed_value = EMPTY_VALUE
       /\ _parse_timezone(text) = NoneStr => BitDTEq(y, create_empty)

\* C22: every value returned by decode for which is_empty() is true equals
\* create_empty() under BitDT equality: its packed value is 0, its timezone
\* offset is 0 and get_timezone() returns no timezone, whatever affix the
\* text carried.
C22_SingleEmpty ==
  (pc \in {"decoded", "reencoded"} /\ is_empty(y))
    => /\ BitDTEq(y, create_empty)
       /\ y.packed_value = EMPTY_VALUE
       /\ y.timezone_offset = 0
       /\ get_timezone(y) = NoneStr

(***************************************************************************)
(* Texts with an affix: a body followed by a sign and two or four digits   *)
(* is handed to decode, the value to encode, and that text to decode.      *)
(***************************************************************************)

\* a date, a time of day, a date with the hour, a full date-time, a date of
\* year 0, a body that ends before the second, a body with a symbol behind
\* the millisecond, and the Empty text
AffixBodies ==
  {<<"N","8","1","F","O",";">>,
   <<":","B","B","A","0">>,
   <<"N","8","1","F","O","P",":">>,
   <<"N","8","1","F","O","P","e","t","z","Z">>,
   <<"A","A","A","A","B",";">>,
   <<"F","F","F","F","F","F","F">>,
   <<".",".","B",".","B">>,
   <<"&">>}

\* a sign and two digits, a sign and four digits
ValidAffixes ==
  {<<s>> \o h : s \in ZoneSigns, h \in ZoneHours}
  \cup {<<s>> \o h \o m : s \in ZoneSigns, h \in ZoneHours, m \in ZoneMinutes}

AffixInit ==
  /\ pc = "encoded"
  /\ \E body \in AffixBodies, affix \in ValidAffixes :
       /\ args = [body |-> body, affix |-> affix]
       /\ text = body \o affix
  /\ x = Unset /\ y = Unset /\ text2 = Unset /\ z = Unset /\ result = Unset

AffixNext == Decode \/ Reencode \/ Redecode

SpecAffix == AffixInit /\ [][AffixNext]_vars

\* a is a sign followed by two or four decimal digits
GrammarValid(a) ==
  /\ Len(a) \in {3, 5}
  /\ a[1] \in {"+", "-"}
  /\ IsDigits(SubSeq(a, 2, Len(a)))

\* the text t ends with the affix a, or with no affix when a is None
EndsWithAffix(t, a) ==
  IF a = NoneStr THEN ~In("+", t) /\ ~In("-", t)
  ELSE /\ Len(t) >= Len(a)
       /\ SubSeq(t, Len(t) - Len(a) + 1, Len(t)) = a

\* the affix encode appended to the text of v is grammar-valid and parses to
\* v's offset (none is appended for offset 0), and the text decodes to v
ReencodesToItself ==
  /\ EndsWithAffix(text2, get_timezone(y))
  /\ IF y.timezone_offset = 0 THEN get_timezone(y) = NoneStr
     ELSE /\ GrammarValid(get_timezone(y))
          /\ _parse_timezone(text2) = get_timezone(y)
          /\ _parse_timezone_offset(get_timezone(y)) = y.timezone_offset
  /\ BitDTEq(z, y)

\* C23 holds when the affix of the text is below 100 hours
C23_ReencodeBelow100Hours ==
  (pc = "done" /\ ~is_empty(y) /\ ZoneTotalMinutes(args.affix) < 6000)
    => ReencodesToItself

\* C23: for every text with a grammar-valid timezone affix (a sign followed
\* by 2 or 4 decimal digits, any digit values) that decodes to a non-empty
\* value v, the affix that v.encode() appends is again grammar-valid and
\* parses to the same offset, so decode(v.encode()) equals v.
C23_ReencodeStable ==
  (pc = "done" /\ GrammarValid(args.affix) /\ ~is_empty(y)) => ReencodesToItself

====
